---------------------------- MODULE Spec2Model ----------------------------
(***************************************************************************)
(* The room state machine of the hackathon voting game (src/app.js).       *)
(*                                                                         *)
(* One room record lives in the store.  Host sessions and Player sessions  *)
(* each keep the fields of `state` (app.js 20-30) that their snapshot      *)
(* handler copies from the last snapshot, plus the `disabled` attribute of *)
(* the buttons that the handler sets: a disabled button emits no click.    *)
(*                                                                         *)
(* Store semantics.                                                        *)
(*  - transaction(fn) applies fn atomically to the latest room value.  The *)
(*    closure reads state.currentRound of the issuing session, which is    *)
(*    the round of that session's last snapshot and may lag the store.     *)
(*  - update() and set() overwrite one path of the latest room value.      *)
(*  - A Host session sees its own write at once: its handler runs on the   *)
(*    value it wrote.  A write of another session reaches a session later, *)
(*    as a separate step that delivers the latest room value (`stale`      *)
(*    holds the sessions with such a delivery outstanding).                *)
(*  - A Player's vote write is applied when issued; its completion         *)
(*    callback, and the snapshot that carries the vote, come later.        *)
(*                                                                         *)
(* The clock is a counter of ticks; a voting window lasts TimerLen ticks.  *)
(* A participant reports the same team every time it joins the room.       *)
(***************************************************************************)
EXTENDS Integers, FiniteSets, Sequences, TLC

\* ------------------------------------------------------------- bounds
MaxRound == 1       \* rounds 0..MaxRound are explored (AdvanceRound is capped)
MaxTime == 3        \* the wall clock runs from 1 to MaxTime
TimerLen == 1       \* the voting window in clock ticks (3 minutes, app.js 578)
MaxAcks == 2        \* vote writes of one Player awaiting their completion callback

\* The smallest roster createRoomBtn accepts (names.length < 2 is refused)
MinTeams == 2

\* JavaScript null / undefined / absent key
NULL == -1

\* Team indexes of a room created with the smallest roster
Teams == 0 .. (MinTeams - 1)
Rounds == 0 .. MaxRound
\* Host sessions open on the same room code, and Player sessions (the session
\* name stands for the voterId kept in localStorage, app.js 671-677)
Hosts == {"h1", "h2"}
Players == {"v1", "v2"}

\* CRITERIA keys (app.js 11-17), in order
CriteriaKeys == <<"problemFit", "aiLeverage", "creativity", "execution", "pitch">>
Criteria == {CriteriaKeys[i] : i \in 1 .. Len(CriteriaKeys)}

\* A rating-map with every criterion set to s stars
AllStars(s) == [c \in Criteria |-> s]
\* The rating forms a Player may hold when clicking submit: complete maps with
\* 2 or 5 stars everywhere, and one with the last criterion left unchecked
\* (readRatings leaves the key out, app.js 363-364).
Incomplete == [c \in Criteria \ {"pitch"} |-> 3]
Forms == {AllStars(2), AllStars(5), Incomplete}
\* An absent votes[r][v]
NoVote == [c \in {} |-> 0]
\* An absent rooms/<code>: snapshot.val() and the transaction's argument are null
NoRoom == << >>

VARIABLES
    room,     \* the room record in the store
    now,      \* the wall clock (Date.now())
    host,     \* per Host session: the state fields and button states
    player,   \* per Player session: the state fields and button state
    stale,    \* the sessions that have not yet received the latest room value
    lastSel,  \* history: the SelectTeam transaction that was the last write
    rooms,    \* the records under rooms/<code> that one participant opens
    client,   \* that participant: `state`, its requests in flight, its page
    leaderboard  \* the leaderboard array: as built, and the rows rendered from it

\* The participant who creates, opens and joins rooms, and the leaderboard
\* rows, are followed by the specifications of the later sections
nav == <<rooms, client, leaderboard>>

vars == <<room, now, host, player, stale, lastSel, rooms, client, leaderboard>>

\* The later sections' variables where a specification does not follow them
NavUnused == rooms = << >> /\ client = << >> /\ leaderboard = << >>

\* ------------------------------------------------------------- helpers
\* timerEnd && timerEnd > Date.now()   (app.js 415, 462)
TimerRunning(timerEnd, t) == timerEnd # 0 /\ timerEnd > t

\* Mutant of playerHasVoted: the round is forgotten, round 0 is looked up
playerHasVoted_FirstRound(data, round, voterId) == data.votes[0][voterId] # NoVote

\* playerHasVoted(room) for the client's state.currentRound / voterId (370-375)
playerHasVoted(data, round, voterId) == data.votes[round][voterId] # NoVote

\* Mutant of allSelected: CRITERIA.some in place of CRITERIA.every
allSelected_SomeSelected(ratings) ==
    \E c \in Criteria : c \in DOMAIN ratings /\ ratings[c] # 0

\* CRITERIA.every(c => ratings[c.key])   (app.js 689)
allSelected(ratings) == \A c \in Criteria : c \in DOMAIN ratings /\ ratings[c] # 0

\* The Host snapshot handler (app.js 381-433) on snapshot `data` at time t:
\* the state fields it copies and the button states it sets.
HostView(data, t) ==
    [ currentRound     |-> data.currentRound,
      currentTeamIndex |-> data.currentTeam,
      timerEnd         |-> data.timerEnd,
      timerIsRunning   |-> TimerRunning(data.timerEnd, t) ]

\* Object.keys(data.roundTeams || {}).map(Number), with round 0 pushed when
\* no round is recorded (app.js 393-397)
playedRounds(data) ==
    LET recorded == {r \in Rounds : data.roundTeams[r] # NULL}
    IN  IF recorded = {} THEN {0} ELSE recorded

\* The round selector of a Host session is followed where a specification
\* starts the session with a selector value; elsewhere it stays NotFollowed.
\* Nothing but the handler's own next run and the round of the live results
\* depends on the selector.
NotFollowed == NULL - 1

\* Number(roundSelector.value): the select's value is the empty string while
\* no option is selected (NULL here), and Number("") is 0
Number(value) == IF value = NULL THEN 0 ELSE value

\* roundSelector.value = v (app.js 407-411): the option with that value
\* becomes the selected one; where no option has it none is selected
SetSelectValue(options, v) == IF v \in options THEN v ELSE NULL

\* "Restore selection or default to current round" (app.js 406-411)
restoreSelection(previouslySelected, options, currentRound) ==
    IF previouslySelected = NotFollowed THEN NotFollowed
    ELSE IF Number(previouslySelected) \in options
    THEN SetSelectValue(options, previouslySelected)
    ELSE SetSelectValue(options, currentRound)

\* A Host session before its first snapshot: `state` as declared (app.js
\* 20-30); `roundSelector` is NULL for a select without options
HostBeforeSnapshot(roundSelector) ==
    [ currentRound     |-> 0,
      currentTeamIndex |-> NULL,
      timerEnd         |-> 0,
      timerIsRunning   |-> FALSE,
      roundSelector    |-> roundSelector ]

\* The snapshot handler of subscribeHost (app.js 380-433) run on `data` at
\* time t in a session whose state was prev: nothing on an absent room, else
\* the state fields, the round selector and the button states
subscribeHostHandler(prev, data, t) ==
    IF data = NoRoom THEN prev
    ELSE [ currentRound     |-> HostView(data, t).currentRound,
           currentTeamIndex |-> HostView(data, t).currentTeamIndex,
           timerEnd         |-> HostView(data, t).timerEnd,
           timerIsRunning   |-> HostView(data, t).timerIsRunning,
           roundSelector    |-> restoreSelection(prev.roundSelector, playedRounds(data),
                                                 data.currentRound) ]

\* Mutant of CanSubmit: the own-team test is left out
CanSubmit_IgnoresOwnTeam(data, myTeamIndex, voterId, t) ==
    /\ TimerRunning(data.timerEnd, t)
    /\ ~ playerHasVoted(data, data.currentRound, voterId)

\* Vote submission as the Player handler enables it (app.js 462-465)
CanSubmit(data, myTeamIndex, voterId, t) ==
    /\ TimerRunning(data.timerEnd, t)
    /\ ~ (data.currentTeam = myTeamIndex)
    /\ ~ playerHasVoted(data, data.currentRound, voterId)

\* The Player snapshot handler (app.js 445-481) on snapshot `data` at time t
PlayerView(p, myTeamIndex, data, t) ==
    [ myTeamIndex      |-> myTeamIndex,
      currentRound     |-> data.currentRound,
      currentTeamIndex |-> data.currentTeam,
      timerEnd         |-> data.timerEnd,
      submitDisabled   |-> ~ CanSubmit(data, myTeamIndex, p, t),
      acks             |-> player[p].acks ]

\* Button states left by the Host handler's last run (app.js 413-432)
teamButtonsDisabled(h) == host[h].timerIsRunning
startBtnDisabled(h) == host[h].currentTeamIndex = NULL \/ host[h].timerIsRunning
stopBtnDisabled(h) == ~ host[h].timerIsRunning

\* Who has a value event outstanding after a write that turned rm into rm2;
\* `seen` are the sessions whose handler ran on the written value already
Notify(rm, rm2, seen) ==
    IF rm2 = rm THEN stale
    ELSE ((Hosts \cup {p \in Players : player[p].myTeamIndex # NULL}) \ seen)

\* No SelectTeam transaction was the last write
NoSel == [by |-> "none", index |-> NULL, round |-> NULL, prev |-> NULL]

\* ------------------------------------------------------------- initial state
\* The room as createRoomBtn writes it (app.js 548-556)
NewRoom ==
    [ currentRound |-> 0,
      currentTeam  |-> NULL,
      timerEnd     |-> 0,
      roundTeams   |-> [r \in Rounds |-> NULL],
      votes        |-> [r \in Rounds |-> [v \in Players |-> NoVote]] ]

\* The room exists, both Host sessions have opened it (first snapshot
\* delivered) and no Player has joined yet (state as in app.js 20-30).
Init ==
    /\ NavUnused
    /\ room = NewRoom
    /\ now = 1
    /\ host = [h \in Hosts |-> subscribeHostHandler(HostBeforeSnapshot(NotFollowed), NewRoom, 1)]
    /\ player = [p \in Players |->
                   [ myTeamIndex      |-> NULL,
                     currentRound     |-> 0,
                     currentTeamIndex |-> NULL,
                     timerEnd         |-> 0,
                     submitDisabled   |-> TRUE,
                     acks             |-> 0 ]]
    /\ stale = {}
    /\ lastSel = NoSel

\* ------------------------------------------------------------- the clock
Tick ==
    /\ UNCHANGED nav
    /\ now < MaxTime
    /\ now' = now + 1
    /\ UNCHANGED <<room, host, player, stale, lastSel>>

\* ------------------------------------------------------------- Host
\* The latest room value reaches Host h (app.js 381-433)
HostSnapshot(h) ==
    /\ UNCHANGED nav
    /\ h \in stale
    /\ host' = [host EXCEPT ![h] = subscribeHostHandler(host[h], room, now)]
    /\ stale' = stale \ {h}
    /\ UNCHANGED <<room, now, player, lastSel>>

\* Mutant of SelectTeamTxn: a team already recorded for the round is kept
SelectTeamTxn_KeepsRecordedTeam(rm, stateRound, index) ==
    [rm EXCEPT !.currentTeam = index,
               !.roundTeams = [rm.roundTeams EXCEPT ![stateRound] =
                                  IF @ = NULL THEN index ELSE @]]

\* Mutant of SelectTeamTxn: an absent room is given the selected team
SelectTeamTxn_CreatesRoom(rm, stateRound, index) ==
    LET base == IF rm = NoRoom THEN NewRoom ELSE rm
    IN  [base EXCEPT !.currentTeam = index,
                     !.roundTeams = [base.roundTeams EXCEPT ![stateRound] = index]]

\* The transaction function of the team button (app.js 94-101), run on the
\* latest room value with the issuing client's state.currentRound
SelectTeamTxn(rm, stateRound, index) ==
    IF rm = NoRoom THEN rm
    ELSE [rm EXCEPT !.currentTeam = index,
                    !.roundTeams = [rm.roundTeams EXCEPT ![stateRound] = index]]

\* History of the team-button transactions: the one that was the last write
\* to the room (by, index, the state.currentRound it used) and, in prev, the
\* team of another session's SelectTeam for the same round that it overtook
\* without having seen it (NULL when there was none).
SelLog(h, index) ==
    [ by    |-> h,
      index |-> index,
      round |-> host[h].currentRound,
      prev  |-> IF /\ lastSel.by \notin {"none", h}
                   /\ h \in stale
                   /\ lastSel.round = host[h].currentRound
                THEN lastSel.index ELSE NULL ]

\* Click on team button `index` (app.js 88-102)
SelectTeam(h, index) ==
    /\ UNCHANGED nav
    /\ ~ teamButtonsDisabled(h)
    /\ ~ (host[h].currentTeamIndex = index /\ host[h].timerEnd > now)
    /\ room' = SelectTeamTxn(room, host[h].currentRound, index)
    /\ host' = [host EXCEPT ![h] = subscribeHostHandler(host[h], room', now)]
    /\ stale' = Notify(room, room', {h}) \ {h}
    /\ lastSel' = SelLog(h, index)
    /\ UNCHANGED <<now, player>>

\* update({ timerEnd: end }) of timerStartBtn (app.js 578-579), issued at time
\* t: it overwrites the one field of the latest room value
StartTimerUpdate(rm, t) == [rm EXCEPT !.timerEnd = t + TimerLen]

\* timerStartBtn (app.js 573-580): update({timerEnd: end}) overwrites one field
StartTimer(h) ==
    /\ UNCHANGED nav
    /\ ~ startBtnDisabled(h)
    /\ host[h].currentTeamIndex # NULL
    /\ room' = StartTimerUpdate(room, now)
    /\ host' = [host EXCEPT ![h].timerEnd = now + TimerLen,
                            ![h].timerIsRunning = TimerRunning(now + TimerLen, now)]
    /\ stale' = Notify(room, room', {h}) \cup (stale \cap {h})
    /\ lastSel' = NoSel
    /\ UNCHANGED <<now, player>>

\* Mutant of StopTimerUpdate: the team under evaluation is cleared as well
StopTimerUpdate_ClearsTeam(rm) == [rm EXCEPT !.timerEnd = 0, !.currentTeam = NULL]

\* update({ timerEnd: 0 }) of timerStopBtn (app.js 582)
StopTimerUpdate(rm) == [rm EXCEPT !.timerEnd = 0]

\* timerStopBtn (app.js 581-583)
StopTimer(h) ==
    /\ UNCHANGED nav
    /\ ~ stopBtnDisabled(h)
    /\ room' = StopTimerUpdate(room)
    /\ host' = [host EXCEPT ![h].timerEnd = 0, ![h].timerIsRunning = FALSE]
    /\ stale' = Notify(room, room', {h}) \cup (stale \cap {h})
    /\ lastSel' = NoSel
    /\ UNCHANGED <<now, player>>

\* Mutant of RetreatTxn: the votes of the round that is left are dropped
RetreatTxn_DropsVotes(rm) ==
    [rm EXCEPT !.currentRound = IF rm.currentRound - 1 > 0 THEN rm.currentRound - 1 ELSE 0,
               !.currentTeam = NULL,
               !.timerEnd = 0,
               !.votes = [rm.votes EXCEPT ![rm.currentRound] = [v \in Players |-> NoVote]]]

\* Mutant of RetreatTxn: Math.max(0, ...) is left out
RetreatTxn_NoFloor(rm) ==
    [rm EXCEPT !.currentRound = rm.currentRound - 1,
               !.currentTeam = NULL,
               !.timerEnd = 0]

\* The transaction function of prevRoundBtn (app.js 586-593)
RetreatTxn(rm) ==
    IF rm = NoRoom THEN rm
    ELSE [rm EXCEPT !.currentRound = IF rm.currentRound - 1 > 0 THEN rm.currentRound - 1 ELSE 0,
                    !.currentTeam = NULL,
                    !.timerEnd = 0]

\* prevRoundBtn click (app.js 585-594)
RetreatRound(h) ==
    /\ UNCHANGED nav
    /\ room' = RetreatTxn(room)
    /\ host' = [host EXCEPT ![h] = subscribeHostHandler(host[h], room', now)]
    /\ stale' = Notify(room, room', {h}) \ {h}
    /\ lastSel' = NoSel
    /\ UNCHANGED <<now, player>>

\* Mutant of AdvanceTxn: the round entered starts with no votes
AdvanceTxn_ResetsVotes(rm) ==
    IF rm = NoRoom THEN rm
    ELSE [rm EXCEPT !.currentRound = rm.currentRound + 1,
                    !.currentTeam = NULL,
                    !.timerEnd = 0,
                    !.votes = [rm.votes EXCEPT ![rm.currentRound + 1] =
                                  [v \in Players |-> NoVote]]]

\* Mutant of AdvanceTxn: the timer is left as it is
AdvanceTxn_KeepsTimer(rm) ==
    [rm EXCEPT !.currentRound = rm.currentRound + 1,
               !.currentTeam = NULL]

\* Mutant of AdvanceTxn: the round entered has its recorded team cleared
AdvanceTxn_ClearsRoundTeam(rm) ==
    [rm EXCEPT !.currentRound = rm.currentRound + 1,
               !.currentTeam = NULL,
               !.timerEnd = 0,
               !.roundTeams = [rm.roundTeams EXCEPT ![rm.currentRound + 1] = NULL]]

\* The transaction function of nextRoundBtn (app.js 597-603)
AdvanceTxn(rm) ==
    IF rm = NoRoom THEN rm
    ELSE [rm EXCEPT !.currentRound = rm.currentRound + 1,
                    !.currentTeam = NULL,
                    !.timerEnd = 0]

\* nextRoundBtn click (app.js 596-604); rounds beyond MaxRound are not explored
AdvanceRound(h) ==
    /\ UNCHANGED nav
    /\ room # NoRoom => room.currentRound < MaxRound
    /\ room' = AdvanceTxn(room)
    /\ host' = [host EXCEPT ![h] = subscribeHostHandler(host[h], room', now)]
    /\ stale' = Notify(room, room', {h}) \ {h}
    /\ lastSel' = NoSel
    /\ UNCHANGED <<now, player>>

\* Mutant of ExpiryWrite: on expiry only the local state.timerEnd is cleared
ExpiryWrite_LocalOnly(rm) == rm

\* set(0) on rooms/<code>/timerEnd by updateHostTimer (app.js 122)
ExpiryWrite(rm) == [rm EXCEPT !.timerEnd = 0]

\* updateHostTimer (app.js 108-124), the one-second tick of a Host: on expiry
\* of the locally known timerEnd it clears it locally and in the store
HostTick(h) ==
    /\ UNCHANGED nav
    /\ host[h].timerEnd # 0
    /\ host[h].timerEnd - now <= 0
    /\ room' = ExpiryWrite(room)
    /\ host' = [host EXCEPT ![h].timerEnd = 0, ![h].timerIsRunning = FALSE]
    /\ stale' = Notify(room, room', {h}) \cup (stale \cap {h})
    /\ lastSel' = NoSel
    /\ UNCHANGED <<now, player>>

\* ------------------------------------------------------------- Player
\* joinRoomBtn and confirmTeamBtn (app.js 630-684): the Player picks a team,
\* takes the voterId kept for the room and subscribes; the first snapshot is
\* delivered with the subscription.  A participant who comes back to the
\* room confirms the same team again.
JoinRoom(p, team) ==
    /\ UNCHANGED nav
    /\ player[p].myTeamIndex \in {NULL, team}
    /\ player' = [player EXCEPT ![p] = PlayerView(p, team, room, now)]
    /\ stale' = stale \ {p}
    /\ UNCHANGED <<room, now, host, lastSel>>

\* The latest room value reaches Player p (app.js 445-481)
PlayerSnapshot(p) ==
    /\ UNCHANGED nav
    /\ p \in stale
    /\ player' = [player EXCEPT ![p] = PlayerView(p, player[p].myTeamIndex, room, now)]
    /\ stale' = stale \ {p}
    /\ UNCHANGED <<room, now, host, lastSel>>

\* Mutant of PlayerTick: on expiry the Player stops the timer in the store, as
\* the Host's countdown does
PlayerTick_WritesExpiry(p) ==
    /\ UNCHANGED nav
    /\ player[p].myTeamIndex # NULL
    /\ player[p].timerEnd # 0
    /\ player[p].timerEnd - now <= 0
    /\ player' = [player EXCEPT ![p].timerEnd = 0]
    /\ room' = ExpiryWrite(room)
    /\ UNCHANGED <<now, host, stale, lastSel>>

\* updatePlayerTimer (app.js 127-141): on expiry only the local timerEnd and
\* the display change
PlayerTick(p) ==
    /\ UNCHANGED nav
    /\ player[p].myTeamIndex # NULL
    /\ player[p].timerEnd # 0
    /\ player[p].timerEnd - now <= 0
    /\ player' = [player EXCEPT ![p].timerEnd = 0]
    /\ UNCHANGED <<room, now, host, stale, lastSel>>

\* Mutant of VoteWrite: set() on votes/<round>, replacing the round's votes
VoteWrite_ReplacesRound(rm, round, voterId, ratings) ==
    [rm EXCEPT !.votes = [rm.votes EXCEPT ![round] =
                             [v \in Players |-> IF v = voterId THEN ratings ELSE NoVote]]]

\* Mutant of VoteWrite: the write also brings the room to the voter's round
VoteWrite_WritesRound(rm, round, voterId, ratings) ==
    [rm EXCEPT !.currentRound = round,
               !.votes = [rm.votes EXCEPT ![round] =
                             [rm.votes[round] EXCEPT ![voterId] = ratings]]]

\* The vote write (app.js 695-696): set() on votes/<state.currentRound>/<voterId>
VoteWrite(rm, round, voterId, ratings) ==
    [rm EXCEPT !.votes = [rm.votes EXCEPT ![round] =
                             [rm.votes[round] EXCEPT ![voterId] = ratings]]]

\* submitVoteBtn click (app.js 686-696) with the form holding `ratings`
SubmitVote(p, ratings) ==
    /\ UNCHANGED nav
    /\ player[p].myTeamIndex # NULL
    /\ ~ player[p].submitDisabled
    /\ player[p].acks < MaxAcks
    /\ IF allSelected(ratings)
          THEN /\ room' = VoteWrite(room, player[p].currentRound, p, ratings)
               /\ player' = [player EXCEPT ![p].acks = @ + 1]
               /\ stale' = Notify(room, room', {})
               /\ lastSel' = NoSel
          ELSE UNCHANGED <<room, player, stale, lastSel>>
    /\ UNCHANGED <<now, host>>

\* The write's completion callback (app.js 696-700)
VoteAck(p) ==
    /\ UNCHANGED nav
    /\ player[p].acks > 0
    /\ player' = [player EXCEPT ![p].acks = @ - 1, ![p].submitDisabled = TRUE]
    /\ UNCHANGED <<room, now, host, stale, lastSel>>

\* ------------------------------------------------------------- specifications
HostActions(h) ==
    \/ HostSnapshot(h)
    \/ \E index \in Teams : SelectTeam(h, index)
    \/ StartTimer(h)
    \/ StopTimer(h)
    \/ RetreatRound(h)
    \/ AdvanceRound(h)
    \/ HostTick(h)

\* A Player session whose participant belongs to one of `teams`, holds one of
\* `forms` when clicking submit, and clicks only while fewer than `clicks`
\* of its vote writes await their completion callback
PlayerActions(p, teams, forms, clicks) ==
    \/ \E team \in teams : JoinRoom(p, team)
    \/ PlayerSnapshot(p)
    \/ PlayerTick(p)
    \/ \E ratings \in forms : player[p].acks < clicks /\ SubmitVote(p, ratings)
    \/ VoteAck(p)

\* Every session acts
Next ==
    \/ Tick
    \/ \E h \in Hosts : HostActions(h)
    \/ \E p \in Players : PlayerActions(p, Teams, Forms, MaxAcks)

Spec == Init /\ [][Next]_vars

\* Two Host sessions race on the room; no Player has joined
NextHosts ==
    \/ Tick
    \/ \E h \in Hosts : HostActions(h)

SpecHosts == Init /\ [][NextHosts]_vars

\* An instant seen from one clock step later: a cleared timer stays cleared
\* and an instant that has long passed stays in the past
ShiftTime(e) == IF e = 0 THEN 0 ELSE IF e > 1 THEN e - 1 ELSE 1

\* The wall clock steps beyond MaxTime: the clock reading is kept and every
\* stored and local end-instant is moved one step towards the past, which
\* leaves every difference timerEnd - Date.now() as one clock step makes it
TickShifted ==
    /\ UNCHANGED nav
    /\ now = MaxTime
    /\ room' = [room EXCEPT !.timerEnd = ShiftTime(@)]
    /\ host' = [h \in Hosts |-> [host[h] EXCEPT !.timerEnd = ShiftTime(@)]]
    /\ player' = [p \in Players |-> [player[p] EXCEPT !.timerEnd = ShiftTime(@)]]
    /\ UNCHANGED <<now, stale, lastSel>>

\* The two Host sessions race within one round while the wall clock runs on
\* without end.  The round is not advanced: for the timer nextRoundBtn does
\* what prevRoundBtn does (timerEnd 0, no current team), and updateHostTimer
\* reads no round.
NextHostsFair ==
    \/ Tick
    \/ TickShifted
    \/ \E h \in Hosts :
          \/ HostSnapshot(h)
          \/ \E index \in Teams : SelectTeam(h, index)
          \/ StartTimer(h)
          \/ StopTimer(h)
          \/ RetreatRound(h)
          \/ HostTick(h)

\* The two Host sessions race, and Host h1 stays subscribed: its one-second
\* tick keeps firing (setInterval, app.js 436-438) and every write of another
\* session reaches it (app.js 381); the wall clock keeps advancing.  Nothing
\* is assumed of h2.
SpecHostsFair ==
    /\ Init
    /\ [][NextHostsFair]_vars
    /\ WF_vars(Tick \/ TickShifted)
    /\ WF_vars(HostTick("h1"))
    /\ WF_vars(HostSnapshot("h1"))

\* One Host session drives the room through its rounds and one Player, a
\* member of team 1, votes, holding either the complete 5-star form or the
\* incomplete one (the Host presents either team, the Player's own included).
\* The Player clicks submit once per acknowledged write; the double click is
\* part of SpecBallot.
NextVote ==
    \/ Tick
    \/ HostActions("h1")
    \/ PlayerActions("v1", {1}, {AllStars(5), Incomplete}, 1)

SpecVote == Init /\ [][NextVote]_vars

\* One voting window: a Host session selects teams and starts the timer in
\* round 0, and two Players vote with any of the forms
NextBallot ==
    \/ Tick
    \/ \E index \in Teams : SelectTeam("h1", index)
    \/ StartTimer("h1")
    \/ HostSnapshot("h1")
    \/ \E p \in Players : PlayerActions(p, Teams, Forms, MaxAcks)

SpecBallot == Init /\ [][NextBallot]_vars

\* ------------------------------------------------------------- claims
\* Some Host session takes a SelectTeam step
SomeSelectTeam == \E h \in Hosts, index \in Teams : SelectTeam(h, index)

\* C1: when a SelectTeam(r, t2) of one Host session commits on top of another
\* session's SelectTeam(r, t1) that it had not seen (both issued from the same
\* room value), roundTeams[r] is t1 or t2 and currentTeam is that same value.
C1_ConcurrentSelectTeam ==
    lastSel.prev # NULL =>
        /\ room.roundTeams[lastSel.round] \in {lastSel.prev, lastSel.index}
        /\ room.currentTeam = room.roundTeams[lastSel.round]

\* C1 witness: two different teams were selected concurrently for one round
C1_Witness ==
    /\ lastSel.prev # NULL
    /\ lastSel.prev # lastSel.index
    /\ room.currentTeam = lastSel.index

\* C2 as stated: a SelectTeam that directly follows the SelectTeam which set
\* roundTeams[r] (no write, hence no round transition, in between) does not
\* change roundTeams[r] to a different team.
C2_Original ==
    [][(lastSel.by # "none" /\ SomeSelectTeam)
          => room'.roundTeams[lastSel.round] = room.roundTeams[lastSel.round]]_vars

\* C2 amended: roundTeams[r], once set, is never cleared, and it changes only
\* by a SelectTeam of a Host session whose state.currentRound is r and whose
\* last snapshot showed no running timer; it then holds that SelectTeam's team.
\* No round transition is needed in between, and none changes the entry.
C2_RoundTeamChangesOnlyBySelectTeam ==
    [][\A r \in Rounds :
          /\ room.roundTeams[r] # NULL => room'.roundTeams[r] # NULL
          /\ room'.roundTeams[r] # room.roundTeams[r] =>
                \E h \in Hosts, index \in Teams :
                    /\ SelectTeam(h, index)
                    /\ host[h].currentRound = r
                    /\ ~ host[h].timerIsRunning
                    /\ room'.roundTeams[r] = index]_vars

\* C2 witness: a round's team was replaced by another team, by two SelectTeam
\* in a row
C2_Witness ==
    /\ lastSel.by # "none"
    /\ lastSel.prev = NULL
    /\ room.roundTeams[lastSel.round] = lastSel.index
    /\ \E h \in Hosts : host[h].currentRound = lastSel.round
                        /\ host[h].currentTeamIndex \notin {NULL, lastSel.index}

\* C3: no write changes or removes roundTeams[r] for a round r other than the
\* room's currentRound at the moment the write is applied.
C3_Original ==
    [][\A r \in Rounds :
          r # room.currentRound => room'.roundTeams[r] = room.roundTeams[r]]_vars

\* C4: in every reachable room, currentTeam present implies
\* roundTeams[currentRound] = currentTeam.
C4_Original ==
    room.currentTeam # NULL => room.roundTeams[room.currentRound] = room.currentTeam

\* C10: a timerEnd that is present and in the future implies currentTeam is
\* present.
C10_Original ==
    TimerRunning(room.timerEnd, now) => room.currentTeam # NULL

\* Player p processes a snapshot (on joining, or a later one); neither step
\* writes to the room
ProcessesSnapshot(p) ==
    /\ UNCHANGED <<room, now, host, lastSel>>
    /\ (PlayerSnapshot(p) \/ \E team \in Teams : JoinRoom(p, team))

\* The voters with a rating-map stored for round r
Entries(rm, r) == {v \in Players : rm.votes[r][v] # NoVote}

\* C5: in no reachable state is a vote stored in a round for a voter whose own
\* team is the team recorded for that round.
C5_Original ==
    \A r \in Rounds, v \in Players :
        room.votes[r][v] # NoVote => player[v].myTeamIndex # room.roundTeams[r]

\* C6: no vote write is issued by a Player whose clock has passed the timerEnd
\* it knows.
C6_Original ==
    [][\A p \in Players, ratings \in Forms :
          (SubmitVote(p, ratings) /\ allSelected(ratings))
              => ~ (player[p].timerEnd # 0 /\ now > player[p].timerEnd)]_vars

\* C7: after every snapshot a Player processes, submission is enabled exactly
\* when the snapshot's timerEnd is present and in the future, the Player's team
\* differs from currentTeam and votes[currentRound][voterId] is absent,
\* whatever the button's state was before.
C7_EnabledIffEligible ==
    [][\A p \in Players :
          ProcessesSnapshot(p) =>
              ( ~ player'[p].submitDisabled
                  <=> /\ room.timerEnd # 0
                      /\ room.timerEnd > now
                      /\ player'[p].myTeamIndex # room.currentTeam
                      /\ room.votes[room.currentRound][p] = NoVote )]_vars

\* C7 witness: a snapshot has enabled submission for a Player
C7_Witness ==
    \E p \in Players :
        /\ player[p].myTeamIndex # NULL
        /\ p \notin stale
        /\ ~ player[p].submitDisabled
        /\ room.roundTeams[room.currentRound] # NULL

\* C8: a stored votes[r][voterId] is never removed, and every snapshot the voter
\* processes (also on joining the room again) while the room's currentRound
\* is r leaves submission disabled.
C8_AlreadyVotedStaysDisabled ==
    [][\A p \in Players :
          /\ \A r \in Rounds : room.votes[r][p] # NoVote => room'.votes[r][p] # NoVote
          /\ (ProcessesSnapshot(p) /\ room.votes[room.currentRound][p] # NoVote)
                => player'[p].submitDisabled]_vars

\* C8 witness: the timer runs for another team, the voter's vote for the
\* current round is stored, and the voter's latest snapshot disabled submission
C8_Witness ==
    \E p \in Players :
        /\ room.votes[room.currentRound][p] # NoVote
        /\ TimerRunning(room.timerEnd, now)
        /\ player[p].myTeamIndex \notin {NULL, room.currentTeam}
        /\ p \notin stale
        /\ player[p].acks = 0
        /\ player[p].submitDisabled

\* C9: a vote write stores the submitted rating-map under
\* votes[round][voterId], replacing what the same voter stored there before,
\* and touches no other entry: the voters with an entry in a round grow by at
\* most the submitting voter.
C9_VoteOverwritesOwnEntryOnly ==
    [][\A p \in Players, ratings \in Forms :
          (SubmitVote(p, ratings) /\ allSelected(ratings)) =>
              /\ room'.votes[player[p].currentRound][p] = ratings
              /\ \A r \in Rounds, v \in Players :
                    (r # player[p].currentRound \/ v # p)
                        => room'.votes[r][v] = room.votes[r][v]
              /\ \A r \in Rounds :
                    Cardinality(Entries(room', r))
                        <= Cardinality(Entries(room, r) \cup {p})]_vars

\* C9 witness: a voter has two vote writes outstanding for round 0 (a double
\* click), one rating-map is stored for it, and another voter has an entry too
C9_Witness ==
    \E p \in Players, q \in Players :
        /\ p # q
        /\ player[p].acks = 2
        /\ room.votes[0][p] = AllStars(5)
        /\ room.votes[0][q] # NoVote

\* ------------------------------------------------------------- Host races
\* The Host transitions that a session can issue on room rm
HostTransitions(rm) ==
    {[op |-> "SelectTeam", index |-> i] : i \in Teams}
        \cup {[op |-> o, index |-> NULL] : o \in {"StartTimer", "StopTimer", "RetreatRound"}}
        \cup (IF rm.currentRound < MaxRound
               THEN {[op |-> "AdvanceRound", index |-> NULL]} ELSE {})

\* The room that results when a Host session whose last handler run left
\* `view` issues transition tr at time t and the store applies it to rm: the
\* handler's own tests are made on the view, the write on rm; a click that the
\* view's button state or the handler's test refuses leaves rm as it is
\* (app.js 88-102, 413-432, 573-604)
HostWrite(tr, view, rm, t) ==
    CASE tr.op = "SelectTeam" ->
            IF /\ ~ view.timerIsRunning
               /\ ~ (view.currentTeamIndex = tr.index /\ view.timerEnd > t)
            THEN SelectTeamTxn(rm, view.currentRound, tr.index) ELSE rm
      [] tr.op = "StartTimer" ->
            IF view.currentTeamIndex # NULL /\ ~ view.timerIsRunning
            THEN StartTimerUpdate(rm, t) ELSE rm
      [] tr.op = "StopTimer" ->
            IF view.timerIsRunning THEN StopTimerUpdate(rm) ELSE rm
      [] tr.op = "AdvanceRound" -> AdvanceTxn(rm)
      [] tr.op = "RetreatRound" -> RetreatTxn(rm)

\* C11: two Host sessions that have both seen the latest room value issue
\* one transition each, concurrently; the store applies h1's first.  The
\* resulting room equals the room of one of the two sequential orders, in
\* which the second session has received the first one's write before it
\* acts.
C11_Original ==
    Hosts \cap stale = {} =>
        \A a \in HostTransitions(room), b \in HostTransitions(room) :
            LET ra == HostWrite(a, host["h1"], room, now)
                rb == HostWrite(b, host["h2"], room, now)
                concurrent == HostWrite(b, host["h2"], ra, now)
                ab == HostWrite(b, HostView(ra, now), ra, now)
                ba == HostWrite(a, HostView(rb, now), rb, now)
            IN  concurrent \in {ab, ba}

\* ------------------------------------------------------------- round and timer steps
\* C12: AdvanceRound sets currentRound + 1, currentTeam absent and timerEnd 0
\* in the one step that every later snapshot shows, and leaves roundTeams and
\* votes as they are; the transaction function itself places no upper limit
\* on the round index.
C12_AdvanceRoundAtomic ==
    [][/\ AdvanceTxn(room).currentRound = room.currentRound + 1
       /\ \A h \in Hosts :
             AdvanceRound(h) =>
                 /\ room'.currentRound = room.currentRound + 1
                 /\ room'.currentTeam = NULL
                 /\ room'.timerEnd = 0
                 /\ room'.roundTeams = room.roundTeams
                 /\ room'.votes = room.votes]_vars

\* C12 witness: the round was advanced while the timer of round 0 was running
\* (a Player still shows it) and a vote of round 0 was stored
C12_Witness ==
    /\ room.currentRound > 0
    /\ room.currentTeam = NULL
    /\ room.timerEnd = 0
    /\ host["h1"].currentRound = room.currentRound
    /\ room.roundTeams[0] # NULL
    /\ \E p \in Players :
          /\ room.votes[0][p] # NoVote
          /\ player[p].currentRound = 0
          /\ TimerRunning(player[p].timerEnd, now)

\* C13: RetreatRound sets currentRound to max(0, currentRound - 1),
\* currentTeam absent and timerEnd 0 in one step, leaving roundTeams and votes
\* as they are; currentRound is never negative, and RetreatRound at round 0
\* keeps round 0.
C13_RetreatRoundFloor ==
    [][/\ room'.currentRound >= 0
       /\ \A h \in Hosts :
             RetreatRound(h) =>
                 /\ room'.currentRound =
                        (IF room.currentRound = 0 THEN 0 ELSE room.currentRound - 1)
                 /\ room'.currentTeam = NULL
                 /\ room'.timerEnd = 0
                 /\ room'.roundTeams = room.roundTeams
                 /\ room'.votes = room.votes]_vars

\* C13 witness: no round other than round 0 was ever played, and the team
\* and the running timer that one Host session still shows for round 0 were
\* cleared in the room
C13_Witness ==
    /\ room.currentRound = 0
    /\ room.currentTeam = NULL
    /\ room.timerEnd = 0
    /\ room.roundTeams[0] # NULL
    /\ \A r \in Rounds \ {0} : room.roundTeams[r] = NULL
    /\ \E h \in Hosts :
          /\ h \in stale
          /\ host[h].currentRound = 0
          /\ host[h].currentTeamIndex # NULL
          /\ TimerRunning(host[h].timerEnd, now)

\* C14: the StopTimer write has no precondition on the room: on every room
\* it yields timerEnd 0 with currentRound, currentTeam, roundTeams and votes
\* unchanged, and applying it again yields the same room; every StopTimer
\* step, by the stop button or by the Host's tick on expiry, is that write.
C14_StopTimerIdempotent ==
    [][/\ StopTimerUpdate(room).timerEnd = 0
       /\ StopTimerUpdate(StopTimerUpdate(room)) = StopTimerUpdate(room)
       /\ \A h \in Hosts :
             (StopTimer(h) \/ HostTick(h)) =>
                 /\ room'.timerEnd = 0
                 /\ room'.currentRound = room.currentRound
                 /\ room'.currentTeam = room.currentTeam
                 /\ room'.roundTeams = room.roundTeams
                 /\ room'.votes = room.votes]_vars

\* C14 witness: the timer that a Host session still shows as running, for
\* the room's round and team, was stopped in the room before its end
C14_Witness ==
    \E h \in Hosts :
        /\ h \in stale
        /\ host[h].timerIsRunning
        /\ host[h].timerEnd > now
        /\ room.timerEnd = 0
        /\ room.currentTeam # NULL
        /\ room.currentTeam = host[h].currentTeamIndex
        /\ room.currentRound = host[h].currentRound

\* The stored timerEnd is present and the wall clock has reached it
Expired == room.timerEnd # 0 /\ now >= room.timerEnd

\* C15 as stated: while Host h1 stays subscribed and ticking, a stored
\* timerEnd that the wall clock has passed is eventually followed by a stored
\* timerEnd of 0.
C15_Original == Expired ~> (room.timerEnd = 0)

\* C15 amended: while Host h1 stays subscribed and ticking, a stored timerEnd
\* that the wall clock has passed does not stay: eventually the stored
\* timerEnd is 0, or a StartTimer has replaced it by an end that lies ahead.
C15_ExpiredTimerIsCleared == Expired ~> (room.timerEnd = 0 \/ room.timerEnd > now)

\* C15 witness: h2 received the stored timerEnd after the clock had passed
\* it and still shows it for the room's round and team; h1 has since cleared
\* it in the room
C15_Witness ==
    /\ room.timerEnd = 0
    /\ ~ host["h2"].timerIsRunning
    /\ room.currentTeam # NULL
    /\ host["h1"].timerEnd = 0
    /\ ~ host["h1"].timerIsRunning
    /\ "h1" \notin stale
    /\ "h2" \in stale
    /\ host["h2"].timerEnd # 0
    /\ now >= host["h2"].timerEnd
    /\ host["h2"].currentTeamIndex = room.currentTeam
    /\ host["h2"].currentRound = room.currentRound

\* ------------------------------------------------------------- countdown display
\* The text that updatePlayerTimer / updateHostTimer (app.js 108-117, 127-140)
\* puts on the timer display when the tick finds state.timerEnd = timerEnd at
\* time t, as the clock ticks it stands for: '03:00', the full window, is
\* TimerLen; mm:ss of the remaining time is the remaining ticks; '00:00' is 0.
timerDisplay(timerEnd, t) ==
    IF timerEnd = 0 THEN TimerLen
    ELSE IF timerEnd - t > 0 THEN timerEnd - t ELSE 0

\* C16: the tick on which a Player's countdown reaches zero displays 00:00,
\* and so does every later tick of that Player for as long as no snapshot
\* is processed (state.timerEnd stays as the tick left it).
C16_Original ==
    [][\A p \in Players :
          PlayerTick(p) =>
              /\ timerDisplay(player[p].timerEnd, now) = 0
              /\ \A t \in now' .. MaxTime :
                    timerDisplay(player'[p].timerEnd, t) = 0]_vars

\* ------------------------------------------------------------- stored votes
\* C17: every rating-map stored under votes[r][voterId] has every criterion
\* key with a value in 1..5, and a submit whose form lacks a criterion writes
\* nothing to the room.
C17_StoredVotesComplete ==
    [][/\ \A r \in Rounds, v \in Players :
             room'.votes[r][v] # NoVote =>
                 /\ DOMAIN room'.votes[r][v] = Criteria
                 /\ \A c \in Criteria : room'.votes[r][v][c] \in 1 .. 5
       /\ \A p \in Players, ratings \in Forms :
             (SubmitVote(p, ratings) /\ ~ allSelected(ratings)) => room' = room]_vars

\* C17 witness: one voter's complete rating-map is stored and another Player,
\* with nothing stored and no write under way, has submission enabled while
\* the timer runs (a click with the incomplete form is refused)
C17_Witness ==
    \E p \in Players, q \in Players :
        /\ room.votes[0][q] = AllStars(2)
        /\ room.votes[0][p] = NoVote
        /\ player[p].myTeamIndex # NULL
        /\ ~ player[p].submitDisabled
        /\ player[p].acks = 0
        /\ TimerRunning(room.timerEnd, now)
        /\ ~ allSelected(Incomplete)

\* The forms that pass the submit handler's test
CompleteForms == {ratings \in Forms : allSelected(ratings)}

\* C18: a vote write leaves every other voter's entry as it was and commutes
\* with whatever may be in flight beside it: the vote write of any other
\* voter for the same round gives the same room in either order, and a Host
\* transition (issued from either Host session's view) gives the same votes
\* in either order.
C18_VoteWritesCommute ==
    [][\A p \in Players, a \in Forms :
          (SubmitVote(p, a) /\ allSelected(a)) =>
              LET r == player[p].currentRound
              IN  /\ \A q \in Players \ {p} :
                        /\ room'.votes[r][q] = room.votes[r][q]
                        /\ \A b \in CompleteForms :
                              VoteWrite(room', r, q, b)
                                  = VoteWrite(VoteWrite(room, r, q, b), r, p, a)
                  /\ \A tr \in HostTransitions(room), h \in Hosts :
                        HostWrite(tr, host[h], room', now).votes
                            = VoteWrite(HostWrite(tr, host[h], room, now), r, p, a).votes]_vars

\* C18 witness: two voters have stored different rating-maps for round 0, and
\* a SelectTeam transaction came between them: the room's team is now the
\* first voter's own
C18_Witness ==
    \E p \in Players, q \in Players :
        /\ room.votes[0][p] = AllStars(2)
        /\ room.votes[0][q] = AllStars(5)
        /\ player[p].myTeamIndex = room.currentTeam
        /\ player[q].myTeamIndex \notin {NULL, room.currentTeam}

\* ------------------------------------------------------------- leaderboard
\* Mutant of Weight: the last criterion weighs as much as the one before
Weight_PitchAsExecution ==
    [problemFit |-> 30, aiLeverage |-> 25, creativity |-> 20, execution |-> 15, pitch |-> 15]

\* CRITERIA weights (app.js 11-17), in hundredths
Weight ==
    [problemFit |-> 30, aiLeverage |-> 25, creativity |-> 20, execution |-> 15, pitch |-> 10]

\* The rating-map of the README's worked example
ExampleVote ==
    [problemFit |-> 5, aiLeverage |-> 4, creativity |-> 3, execution |-> 5, pitch |-> 2]

\* The CRITERIA.forEach loop of computeWeightedAverage from the k-th criterion
\* on: (parseFloat(ratings[c.key]) || 0) * c.weight, summed (in hundredths)
RECURSIVE WeightedSum(_, _)
WeightedSum(ratings, k) ==
    IF k > Len(CriteriaKeys) THEN 0
    ELSE LET key == CriteriaKeys[k]
             val == IF key \in DOMAIN ratings THEN ratings[key] ELSE 0
         IN  val * Weight[key] + WeightedSum(ratings, k + 1)

\* Mutant of computeWeightedAverage: a missing criterion counts as one star
computeWeightedAverage_MissingAsOne(ratings) ==
    WeightedSum([c \in Criteria |-> IF c \in DOMAIN ratings THEN ratings[c] ELSE 1], 1)

\* Mutant of computeWeightedAverage: the plain mean of the five ratings
computeWeightedAverage_Unweighted(ratings) ==
    20 * (ratings.problemFit + ratings.aiLeverage + ratings.creativity
            + ratings.execution + ratings.pitch)

\* computeWeightedAverage (app.js 188-195), in hundredths
computeWeightedAverage(ratings) == WeightedSum(ratings, 1)

\* The voter keys of a round's votes in the order Object.values visits them
VoterKeys == <<"v1", "v2">>

\* Mutant of AddVote: the vote is added to the score but not counted
AddVote_NotCounted(acc, teamIndex, vote) ==
    [acc EXCEPT !.scores[teamIndex] = @ + computeWeightedAverage(vote)]

\* The body of the inner loop of renderLeaderboard (app.js 291-292)
AddVote(acc, teamIndex, vote) ==
    [acc EXCEPT !.scores[teamIndex] = @ + computeWeightedAverage(vote),
                !.counts[teamIndex] = @ + 1]

\* Object.values(roundVotes).forEach (app.js 290-293) from the k-th voter on
RECURSIVE AddRoundVotes(_, _, _, _)
AddRoundVotes(acc, rm, r, k) ==
    IF k > Len(VoterKeys) THEN acc
    ELSE LET vote == rm.votes[r][VoterKeys[k]]
         IN  AddRoundVotes(IF vote = NoVote THEN acc
                           ELSE AddVote(acc, rm.roundTeams[r], vote),
                           rm, r, k + 1)

\* Object.keys(votes).forEach (app.js 286-294) from round r on: a round
\* without a recorded team is skipped
RECURSIVE AddRounds(_, _, _)
AddRounds(acc, rm, r) ==
    IF r > MaxRound THEN acc
    ELSE AddRounds(IF rm.roundTeams[r] = NULL THEN acc
                   ELSE AddRoundVotes(acc, rm, r, 1),
                   rm, r + 1)

\* renderLeaderboard (app.js 277-299) before sorting: per team index the
\* aggregated score (hundredths), the vote count and the average
\* scores[idx] / counts[idx], kept as the fraction <<numerator, denominator>>
renderLeaderboard(rm) ==
    LET acc == AddRounds([scores |-> [i \in Teams |-> 0],
                          counts |-> [i \in Teams |-> 0]], rm, 0)
    IN  [idx \in Teams |->
            [score |-> acc.scores[idx],
             count |-> acc.counts[idx],
             avg   |-> IF acc.counts[idx] # 0
                       THEN <<acc.scores[idx], acc.counts[idx]>>
                       ELSE <<0, 1>>]]

\* The rooms drawn for the leaderboard: any recorded team per round and, per
\* round and voter, no vote or one of two complete rating-maps
BoardRooms ==
    {[NewRoom EXCEPT !.roundTeams = rt, !.votes = vs] :
        rt \in [Rounds -> Teams \cup {NULL}],
        vs \in [Rounds -> [Players -> {NoVote, ExampleVote, AllStars(5)}]]}

\* A Host session opens a room that holds recorded teams and votes; its
\* first snapshot is still to be processed
InitBoard ==
    /\ NavUnused
    /\ room \in BoardRooms
    /\ now = 1
    /\ host = [h \in Hosts |-> HostBeforeSnapshot(NotFollowed)]
    /\ player = [p \in Players |->
                   [ myTeamIndex      |-> NULL,
                     currentRound     |-> 0,
                     currentTeamIndex |-> NULL,
                     timerEnd         |-> 0,
                     submitDisabled   |-> TRUE,
                     acks             |-> 0 ]]
    /\ stale = Hosts
    /\ lastSel = NoSel

\* The Host sessions process the snapshot (and render the leaderboard)
NextBoard ==
    \/ Tick
    \/ \E h \in Hosts : HostSnapshot(h)

SpecBoard == InitBoard /\ [][NextBoard]_vars

\* One Host session drives the room and one Player, a member of team 1,
\* votes with the rating-map of the worked example
NextExample ==
    \/ Tick
    \/ HostActions("h1")
    \/ PlayerActions("v1", {1}, {ExampleVote}, 1)

SpecExample == Init /\ [][NextExample]_vars

\* The (round, voter) pairs whose vote counts for team i
ScoredPairs(rm, i) ==
    {x \in Rounds \X Players : rm.roundTeams[x[1]] = i /\ rm.votes[x[1]][x[2]] # NoVote}

\* The sum of the weighted scores of the votes of the pairs in S
RECURSIVE SumScores(_, _)
SumScores(rm, S) ==
    IF S = {} THEN 0
    ELSE LET x == CHOOSE y \in S : TRUE
         IN  computeWeightedAverage(rm.votes[x[1]][x[2]]) + SumScores(rm, S \ {x})

\* C19: for every team index i the leaderboard's total score is the sum of the
\* weighted scores of votes[r][v] over the rounds r with roundTeams[r] = i and
\* the voters v of votes[r], its vote count is the number of such pairs, and
\* its average is total / count when the count is positive and 0 otherwise.
C19_LeaderboardTotals ==
    \A i \in Teams :
        LET entry == renderLeaderboard(room)[i]
            pairs == ScoredPairs(room, i)
        IN  /\ entry.score = SumScores(room, pairs)
            /\ entry.count = Cardinality(pairs)
            /\ entry.count > 0 => entry.avg[1] * entry.count = entry.score * entry.avg[2]
            /\ entry.count = 0 => entry.avg[1] = 0

\* C19 witness: a Host session has processed the snapshot of a room in which
\* team 0 was evaluated in two rounds and received three votes, not all alike
C19_Witness ==
    /\ "h1" \notin stale
    /\ room.roundTeams[0] = 0
    /\ room.roundTeams[1] = 0
    /\ Cardinality(ScoredPairs(room, 0)) = 3
    /\ \E x \in ScoredPairs(room, 0), y \in ScoredPairs(room, 0) :
          room.votes[x[1]][x[2]] = ExampleVote /\ room.votes[y[1]][y[2]] = AllStars(5)

\* After SelectTeam(0, 0), StartTimer and the single admitted vote of the
\* worked example by a voter of team 1, and nothing else recorded
ExampleRoom ==
    /\ room.currentRound = 0
    /\ room.currentTeam = 0
    /\ room.roundTeams = [r \in Rounds |-> IF r = 0 THEN 0 ELSE NULL]
    /\ room.votes = [r \in Rounds |-> [v \in Players |->
                        IF r = 0 /\ v = "v1" THEN ExampleVote ELSE NoVote]]
    /\ player["v1"].myTeamIndex = 1

\* C20: in the room of the end-to-end example the leaderboard average of
\* team 0 (Alpha) is 4.05 and that of team 1 (Beta) is 0.
C20_ExampleAverages ==
    ExampleRoom =>
        LET board == renderLeaderboard(room)
        IN  /\ board[0].avg[1] = 405 * board[0].avg[2]
            /\ board[1].avg[1] = 0

\* C20 witness: the example's vote was admitted while the timer started for
\* team 0 was running, and the Host session has processed it
C20_Witness ==
    /\ ExampleRoom
    /\ TimerRunning(room.timerEnd, now)
    /\ "h1" \notin stale
    /\ player["v1"].acks = 0

\* ------------------------------------------------------------- weighted score
\* The rating-map that holds the stars of `stars` (0: the key is absent)
RatingMap(stars) == [c \in {k \in Criteria : stars[k] # 0} |-> stars[c]]

\* The rating-maps a store entry may hold: any stars, any criterion absent
\* (the store takes a write from any client of the database)
RatingMaps == {RatingMap(stars) : stars \in [Criteria -> 0 .. 5]}

\* A Host session opens a room whose round 0 was played by team 0 and holds
\* the entry of one voter; its first snapshot is still to be processed
InitScore ==
    /\ NavUnused
    /\ \E ratings \in RatingMaps :
          room = [NewRoom EXCEPT !.roundTeams[0] = 0, !.votes[0]["v1"] = ratings]
    /\ now = 1
    /\ host = [h \in Hosts |-> HostBeforeSnapshot(NotFollowed)]
    /\ player = [p \in Players |->
                   [ myTeamIndex      |-> NULL,
                     currentRound     |-> 0,
                     currentTeamIndex |-> NULL,
                     timerEnd         |-> 0,
                     submitDisabled   |-> TRUE,
                     acks             |-> 0 ]]
    /\ stale = Hosts
    /\ lastSel = NoSel

SpecScore == InitScore /\ [][NextBoard]_vars

\* The stars of criterion c in a rating-map, 0 when the key is absent
Stars(ratings, c) == IF c \in DOMAIN ratings THEN ratings[c] ELSE 0

\* The entry of voter v1 for round 0
ScoredVote == room.votes[0]["v1"]

\* The rating-map of the aggregator's worked example
AggregatorExample ==
    [problemFit |-> 5, aiLeverage |-> 1, creativity |-> 3, execution |-> 2, pitch |-> 4]

\* C22 as stated: the weighted score is the sum of weight x rating over the
\* five criteria, a missing criterion contributing 0, and the ratings
\* 5, 1, 3, 2, 4 score 3.15.
C22_Original ==
    /\ computeWeightedAverage(ScoredVote)
          = 30 * Stars(ScoredVote, "problemFit") + 25 * Stars(ScoredVote, "aiLeverage")
              + 20 * Stars(ScoredVote, "creativity") + 15 * Stars(ScoredVote, "execution")
              + 10 * Stars(ScoredVote, "pitch")
    /\ ScoredVote = AggregatorExample => computeWeightedAverage(ScoredVote) = 315

\* C22 amended: the weighted score is the sum of weight x rating over the
\* five criteria, a missing criterion contributing 0, and the ratings
\* 5, 1, 3, 2, 4 score 3.05.
C22_WeightedScore ==
    /\ computeWeightedAverage(ScoredVote)
          = 30 * Stars(ScoredVote, "problemFit") + 25 * Stars(ScoredVote, "aiLeverage")
              + 20 * Stars(ScoredVote, "creativity") + 15 * Stars(ScoredVote, "execution")
              + 10 * Stars(ScoredVote, "pitch")
    /\ ScoredVote = AggregatorExample => computeWeightedAverage(ScoredVote) = 305

\* C22 witness: the Host session has rendered the room that holds the worked
\* example's rating-map
C22_Witness ==
    /\ ScoredVote = AggregatorExample
    /\ "h1" \notin stale

\* The sum of the weights of the criteria table, from the k-th criterion on
RECURSIVE WeightTotal(_)
WeightTotal(k) ==
    IF k > Len(CriteriaKeys) THEN 0 ELSE Weight[CriteriaKeys[k]] + WeightTotal(k + 1)

\* C24: the weights of the criteria table sum to 1.0 (100 hundredths), a
\* vote that rates every criterion k scores exactly k, and the weighted score
\* of every complete vote lies in [1, 5].
C24_WeightsNormalised ==
    /\ WeightTotal(1) = 100
    /\ \A k \in 1 .. 5 :
          ScoredVote = AllStars(k) => computeWeightedAverage(ScoredVote) = 100 * k
    /\ allSelected(ScoredVote) =>
          /\ computeWeightedAverage(ScoredVote) >= 100
          /\ computeWeightedAverage(ScoredVote) <= 500

\* C24 witness: the Host session has rendered a room whose stored vote rates
\* every criterion 4
C24_Witness ==
    /\ ScoredVote = AllStars(4)
    /\ "h1" \notin stale

\* ------------------------------------------------------------- live results
\* Object.values(roundVotes).forEach (app.js 218-220) from the k-th voter on,
\* with Object.keys(roundVotes).length (app.js 214): the total of criterion c
\* and the number of entries
RECURSIVE CriterionTotal(_, _, _)
CriterionTotal(roundVotes, c, k) ==
    IF k > Len(VoterKeys) THEN [total |-> 0, count |-> 0]
    ELSE LET v    == roundVotes[VoterKeys[k]]
             rest == CriterionTotal(roundVotes, c, k + 1)
         IN  IF v = NoVote THEN rest
             ELSE [total |-> Stars(v, c) + rest.total, count |-> rest.count + 1]

\* renderLiveResults (app.js 198-226) for round `round` of room rm: nothing
\* but a notice when no team is recorded for the round, else for every
\* criterion the average total / voteCount, kept as the fraction
\* <<numerator, denominator>>, and 0 when the round has no entry
renderLiveResults(rm, round) ==
    IF rm.roundTeams[round] = NULL
    THEN [shown |-> FALSE, averages |-> << >>]
    ELSE [shown |-> TRUE,
          averages |-> [c \in Criteria |->
              LET t == CriterionTotal(rm.votes[round], c, 1)
              IN  IF t.count # 0 THEN <<t.total, t.count>> ELSE <<0, 1>>]]

\* A late Host session: h2 moves the room to the next round while h1 selects
\* teams and starts the timer, and one Player, a member of team 1, votes
NextLate ==
    \/ Tick
    \/ AdvanceRound("h2")
    \/ HostSnapshot("h1")
    \/ \E index \in Teams : SelectTeam("h1", index)
    \/ StartTimer("h1")
    \/ PlayerActions("v1", {1}, {AllStars(5)}, 1)

SpecLate == Init /\ [][NextLate]_vars

\* The voters with an entry in round r of room rm
Voters(rm, r) == {v \in Players : rm.votes[r][v] # NoVote}

\* The sum of the stars that the voters in S gave criterion c in round r
RECURSIVE SumStars(_, _, _, _)
SumStars(rm, r, c, S) ==
    IF S = {} THEN 0
    ELSE LET v == CHOOSE w \in S : TRUE
         IN  Stars(rm.votes[r][v], c) + SumStars(rm, r, c, S \ {v})

\* C23: for the round a Player views (the live round of the snapshot just
\* processed) the per-criterion average of every criterion is the sum of that
\* criterion's ratings over the round's votes divided by the number of votes,
\* and where the round has no votes no average other than 0 is shown.
C23_Original ==
    \A p \in Players \ stale :
        player[p].myTeamIndex # NULL =>
            LET round  == room.currentRound
                result == renderLiveResults(room, round)
                n      == Cardinality(Voters(room, round))
            IN  /\ n > 0 =>
                      /\ result.shown
                      /\ \A c \in Criteria :
                            result.averages[c][1] * n
                                = SumStars(room, round, c, Voters(room, round))
                                      * result.averages[c][2]
                /\ (n = 0 /\ result.shown) =>
                      \A c \in Criteria : result.averages[c][1] = 0

\* ------------------------------------------------------------- absent room
\* The record rooms/<code> is removed from the store by something other than
\* this program (the program deletes no room); every subscribed session gets
\* a value event with a null snapshot
DeleteRoom ==
    /\ UNCHANGED nav
    /\ room # NoRoom
    /\ room' = NoRoom
    /\ stale' = Notify(room, room', {})
    /\ lastSel' = NoSel
    /\ UNCHANGED <<now, host, player>>

\* Two Host sessions issue their transactions on a room that may be removed
NextAbsent ==
    \/ Tick
    \/ DeleteRoom
    \/ \E h \in Hosts :
          \/ HostSnapshot(h)
          \/ \E index \in Teams : SelectTeam(h, index)
          \/ RetreatRound(h)
          \/ AdvanceRound(h)

SpecAbsent == Init /\ [][NextAbsent]_vars

\* C27: a SelectTeam, AdvanceRound or RetreatRound transaction applied to a
\* room code whose record does not exist is a no-op: the record stays absent,
\* no partial room is created, and the session's state is as it was.
C27_TransactionOnAbsentRoom ==
    [][\A h \in Hosts :
          (/\ room = NoRoom
           /\ \/ \E index \in Teams : SelectTeam(h, index)
              \/ RetreatRound(h)
              \/ AdvanceRound(h))
              => /\ room' = NoRoom
                 /\ host' = host]_vars

\* C27 witness: the last write attempted on the absent record was the
\* SelectTeam transaction of h1 for team 1
C27_Witness ==
    /\ room = NoRoom
    /\ lastSel.by = "h1"
    /\ lastSel.index = 1


\* ------------------------------------------------------------- round selector
\* The Host picks option r of the round selector (change event, app.js
\* 619-627): the options are those the handler built from the last snapshot;
\* the results of round r are rendered from a fresh read, nothing is written
ChangeRound(h, r) ==
    /\ UNCHANGED nav
    /\ room # NoRoom
    /\ h \notin stale
    /\ host[h].roundSelector # NotFollowed
    /\ r \in playedRounds(room)
    /\ host[h].roundSelector # r
    /\ host' = [host EXCEPT ![h].roundSelector = r]
    /\ UNCHANGED <<room, now, player, stale, lastSel>>

\* What the round selector holds when a dashboard is opened: no selected
\* option (NULL), or an option the page was left with
InitSelector ==
    /\ NavUnused
    /\ room = NewRoom
    /\ now = 1
    /\ \E sel \in [Hosts -> {NULL} \cup Rounds] :
          host = [h \in Hosts |-> HostBeforeSnapshot(sel[h])]
    /\ player = [p \in Players |->
                   [ myTeamIndex      |-> NULL,
                     currentRound     |-> 0,
                     currentTeamIndex |-> NULL,
                     timerEnd         |-> 0,
                     submitDisabled   |-> TRUE,
                     acks             |-> 0 ]]
    /\ stale = Hosts
    /\ lastSel = NoSel

NextSelector ==
    \E h \in Hosts :
        \/ HostSnapshot(h)
        \/ \E index \in Teams : SelectTeam(h, index)
        \/ AdvanceRound(h)
        \/ RetreatRound(h)
        \/ \E r \in Rounds : ChangeRound(h, r)

\* Host dashboards with the round selector followed
SpecSelector == InitSelector /\ [][NextSelector]_vars

\* C29: on every Host snapshot the round selected for viewing is the
\* previously selected round if it is still among the options (the rounds of
\* roundTeams, or round 0 alone), otherwise the room's live currentRound, and
\* the round whose results are rendered is that selected round.  The round
\* rendered is Number(roundSelector.value) (app.js 419); a selector left
\* without a selected option is not held against the claim while the round
\* rendered is the one the claim names.
C29_Original ==
    [][\A h \in Hosts :
          HostSnapshot(h) =>
              LET options  == playedRounds(room)
                  previous == host[h].roundSelector
                  selected == IF previous \in options THEN previous
                              ELSE room.currentRound
              IN  Number(host'[h].roundSelector) = selected]_vars


\* ------------------------------------------------------------- ranking
\* The longest roster of the leaderboards drawn
MaxTeams == 4

\* The averages drawn, as score (hundredths of a star) over count: none, two
\* that are equal (3.00), and 3.05
Averages == {<<0, 1>>, <<300, 1>>, <<600, 2>>, <<305, 1>>}

\* The comparator's result b.avg - a.avg (app.js 301), cleared of the
\* denominators: positive where b ranks before a
compareAvg(a, b) == b.avg[1] * a.avg[2] - a.avg[1] * b.avg[2]

\* Mutant of InsertEntry: an entry is placed before the entries it ties with
InsertEntry_BeforeTies(sorted, entry) ==
    LET k == Cardinality({i \in 1 .. Len(sorted) : compareAvg(sorted[i], entry) < 0})
    IN  SubSeq(sorted, 1, k) \o <<entry>> \o SubSeq(sorted, k + 1, Len(sorted))

\* One step of the stable sort: the entry goes after every entry the
\* comparator does not put behind it
InsertEntry(sorted, entry) ==
    LET k == Cardinality({i \in 1 .. Len(sorted) : compareAvg(sorted[i], entry) <= 0})
    IN  SubSeq(sorted, 1, k) \o <<entry>> \o SubSeq(sorted, k + 1, Len(sorted))

\* leaderboard.sort((a, b) => b.avg - a.avg)   (app.js 301); Array.prototype
\* .sort is stable
RECURSIVE sortLeaderboard(_)
sortLeaderboard(entries) ==
    IF entries = << >> THEN << >>
    ELSE InsertEntry(sortLeaderboard(SubSeq(entries, 1, Len(entries) - 1)),
                     entries[Len(entries)])

\* The medal of the row at `index` of the sorted array (app.js 307-311)
medalFor(sorted, index) ==
    IF index = 0 THEN "gold" ELSE IF index = 1 THEN "silver"
    ELSE IF index = 2 THEN "bronze" ELSE ""

\* The rows appended to the container (app.js 303-326), in order
leaderRows(sorted) ==
    [i \in 1 .. Len(sorted) |->
        [name |-> sorted[i].name, avg |-> sorted[i].avg, medal |-> medalFor(sorted, i - 1)]]

\* A leaderboard array as the map over room.teams leaves it (app.js 296-299):
\* one entry per team in team-index order; a team's name is written as its
\* index.  Nothing is rendered yet.
InitRanking ==
    /\ room = NewRoom
    /\ now = 1
    /\ host = [h \in Hosts |-> HostBeforeSnapshot(NotFollowed)]
    /\ player = [p \in Players |->
                   [ myTeamIndex      |-> NULL,
                     currentRound     |-> 0,
                     currentTeamIndex |-> NULL,
                     timerEnd         |-> 0,
                     submitDisabled   |-> TRUE,
                     acks             |-> 0 ]]
    /\ stale = {}
    /\ lastSel = NoSel
    /\ rooms = << >>
    /\ client = << >>
    /\ \E n \in MinTeams .. MaxTeams :
          \E avgs \in [1 .. n -> Averages] :
              leaderboard = [ entries |-> [i \in 1 .. n |-> [name |-> i - 1, avg |-> avgs[i]]],
                              rows    |-> << >> ]

\* The sort and the rendering of the rows (app.js 300-326)
RenderRows ==
    /\ leaderboard.rows = << >>
    /\ leaderboard' = [leaderboard EXCEPT !.rows = leaderRows(sortLeaderboard(leaderboard.entries))]
    /\ UNCHANGED <<room, now, host, player, stale, lastSel, rooms, client>>

SpecRanking == InitRanking /\ [][RenderRows]_vars

\* a.avg >= b.avg for averages held as score over count
AvgAtLeast(a, b) == a[1] * b[2] >= b[1] * a[2]

\* C21: the rendered leaderboard is a permutation of all teams in order of
\* non-increasing average, teams with equal averages keep their team-index
\* order, and the medals go to the sorted positions 0, 1 and 2 only,
\* whatever the scores.
C21_LeaderboardOrder ==
    leaderboard.rows # << >> =>
        LET entries == leaderboard.entries
            rows    == leaderboard.rows
        IN  /\ Len(rows) = Len(entries)
            /\ \A t \in 1 .. Len(entries) :
                  \E i \in 1 .. Len(rows) :
                      rows[i].name = entries[t].name /\ rows[i].avg = entries[t].avg
            /\ \A i, j \in 1 .. Len(rows) :
                  i < j => /\ AvgAtLeast(rows[i].avg, rows[j].avg)
                           /\ AvgAtLeast(rows[j].avg, rows[i].avg)
                                 => rows[i].name < rows[j].name
            /\ \A i \in 1 .. Len(rows) :
                  rows[i].medal = IF i = 1 THEN "gold" ELSE IF i = 2 THEN "silver"
                                  ELSE IF i = 3 THEN "bronze" ELSE ""

\* C21 witness: four teams tie at the top (3.00, two of them as 6.00 over two
\* votes); the rows keep the team order and the fourth carries no medal
C21_Witness ==
    /\ Len(leaderboard.rows) = 4
    /\ \A i \in 1 .. 4 : AvgAtLeast(leaderboard.rows[i].avg, <<300, 1>>)
                         /\ AvgAtLeast(<<300, 1>>, leaderboard.rows[i].avg)
    /\ leaderboard.entries[2].avg = <<600, 2>>
    /\ leaderboard.entries[3].avg = <<300, 1>>
    /\ leaderboard.rows[3].medal = "bronze"
    /\ leaderboard.rows[4].medal = ""


\* ------------------------------------------------------------- one participant
\* One participant's page from the landing panel on: it creates rooms, opens
\* them from its history and joins them as Player.  `rooms` holds the records
\* under the room codes it uses; `client` holds its `state` (app.js 20-30),
\* the panel shown, the store requests it has in flight, its localStorage and
\* the listeners it has registered with the store.
\*
\* A set() is acknowledged, or refused, in a later step than the click; until
\* then the page sees the value it wrote.  A listener registered on a path
\* with such a value runs at once; elsewhere the first snapshot follows.
\* Writes of the page to a room reach the store after the room's creation
\* write, or are refused with it.

\* The room codes drawn (generateRoomCode, app.js 32-39)
Codes == {"A", "B"}
\* The rows of the team list (addTeamInput) and what is typed into them
MaxInputs == 2
NameInputs == {" ", "Alpha"}
\* The requests of the page that may be in flight together
MaxRequests == 2

\* String.prototype.trim on the values drawn
trim(value) == IF value = " " THEN "" ELSE value

\* Array.from(list).map(i => i.value.trim()).filter(n => n)   (app.js 536)
teamNames(list) ==
    LET IsSet(n) == n # ""
    IN  SelectSeq([i \in 1 .. Len(list) |-> trim(list[i])], IsSet)

\* The record createRoomBtn writes (app.js 548-556); createdAt is left out
createdRoom(names) ==
    [ teams        |-> names,
      currentRound |-> 0,
      currentTeam  |-> NULL,
      timerEnd     |-> 0,
      roundTeams   |-> [r \in Rounds |-> NULL],
      votes        |-> [r \in Rounds |-> [v \in Players |-> NoVote]] ]

\* Mutant of tooFewTeams: one team is enough
tooFewTeams_AcceptsOne(names) == Len(names) < 1

\* names.length < 2   (app.js 537)
tooFewTeams(names) == Len(names) < MinTeams

\* The creation writes of the page that are in flight
Creating == {q \in client.requests : q.op = "set"}

\* rooms/<code> as the page sees it: the value of its own creation write
\* while that is in flight, else the record in the store
localView(code) ==
    IF \E q \in Creating : q.code = code
    THEN createdRoom((CHOOSE q \in Creating : q.code = code).teams)
    ELSE rooms[code]

\* The page shows alert(message)
Alerted(c, message) == [c EXCEPT !.alert = message]


\* The Host snapshot handler (app.js 381-433) of the page, on snapshot `data`
hostHandler(c, data) ==
    IF data = NoRoom THEN c
    ELSE [c EXCEPT !.teams = data.teams,
                   !.currentRound = data.currentRound,
                   !.currentTeamIndex = data.currentTeam,
                   !.timerEnd = data.timerEnd,
                   !.teamButtonsDisabled = TimerRunning(data.timerEnd, now),
                   !.startBtnDisabled = data.currentTeam = NULL
                                           \/ TimerRunning(data.timerEnd, now)]

\* The Player snapshot handler (app.js 445-481) of the page
playerHandler(c, data) ==
    IF data = NoRoom THEN c
    ELSE [c EXCEPT !.teams = data.teams,
                   !.currentRound = data.currentRound,
                   !.currentTeamIndex = data.currentTeam,
                   !.timerEnd = data.timerEnd,
                   !.submitDisabled = ~ CanSubmit(data, c.myTeamIndex, c.voterId, now)]

\* The handler of one registered listener runs on `data`
runHandler(c, listener, data) ==
    IF listener.role = "host" THEN hostHandler(c, data) ELSE playerHandler(c, data)

\* The page's listeners on rooms/<code> run, in order of registration, on the
\* value `data` of that path
RECURSIVE runListeners(_, _, _, _)
runListeners(c, code, data, k) ==
    IF k > Len(c.listeners) THEN c
    ELSE runListeners(IF c.listeners[k].code = code
                      THEN runHandler(c, c.listeners[k], data) ELSE c,
                      code, data, k + 1)

\* ref.off('value', sub): the listener is taken off the path
RECURSIVE offListener(_, _)
offListener(registered, sub) ==
    IF registered = << >> THEN << >>
    ELSE IF Head(registered) = sub THEN Tail(registered)
    ELSE <<Head(registered)>> \o offListener(Tail(registered), sub)

RECURSIVE offAll(_, _)
offAll(registered, subs) ==
    IF subs = << >> THEN registered
    ELSE offAll(offListener(registered, Head(subs)), Tail(subs))

\* clearSubscriptions (app.js 48-52)
clearSubscriptions(c) ==
    [c EXCEPT !.listeners = offAll(c.listeners, c.subscriptions),
              !.subscriptions = << >>]

\* subscribeHost / subscribePlayer (app.js 378-439, 442-487) up to the push:
\* the old subscriptions are cleared, a listener is registered on
\* rooms/<state.roomCode> and its handle is kept
subscribe(c, role) ==
    LET sub == [code |-> c.roomCode, role |-> role]
        d   == clearSubscriptions(c)
    IN  [d EXCEPT !.listeners = Append(d.listeners, sub),
                  !.subscriptions = Append(d.subscriptions, sub)]

\* The page as loaded (app.js 20-30): the landing panel, no request in
\* flight, no listener, an empty Host history and no room under the codes the
\* page will draw ("" stands for no room code and no voterId).  The buttons
\* are enabled until a handler sets them: a button the markup disables only
\* takes clicks away.
InitClient ==
    /\ room = NewRoom
    /\ now = 1
    /\ host = [h \in Hosts |-> HostBeforeSnapshot(NotFollowed)]
    /\ player = [p \in Players |->
                   [ myTeamIndex      |-> NULL,
                     currentRound     |-> 0,
                     currentTeamIndex |-> NULL,
                     timerEnd         |-> 0,
                     submitDisabled   |-> TRUE,
                     acks             |-> 0 ]]
    /\ stale = {}
    /\ lastSel = NoSel
    /\ leaderboard = << >>
    /\ rooms = [code \in Codes |-> NoRoom]
    /\ client = [ panel               |-> "landing",
                     roomCode            |-> "",
                     teams               |-> << >>,
                     myTeamIndex         |-> NULL,
                     voterId             |-> "",
                     currentRound        |-> 0,
                     currentTeamIndex    |-> NULL,
                     timerEnd            |-> 0,
                     teamButtonsDisabled |-> FALSE,
                     startBtnDisabled    |-> FALSE,
                     submitDisabled      |-> FALSE,
                     subscriptions       |-> << >>,
                     listeners           |-> << >>,
                     requests            |-> {},
                     history             |-> {},
                     alert               |-> "",
                     opened              |-> "" ]

\* A handler or callback of the page runs: no alert is showing (alert()
\* holds the page until it is dismissed); the other variables stay
ClientStep ==
    /\ client.alert = ""
    /\ UNCHANGED <<room, now, host, player, stale, lastSel, leaderboard>>

\* The participant dismisses the alert
DismissAlert ==
    /\ client.alert # ""
    /\ client' = [client EXCEPT !.alert = ""]
    /\ UNCHANGED <<room, now, host, player, stale, lastSel, leaderboard, rooms>>


\* The panels a participant reaches without opening a room: the landing
\* choice, the Host hub behind the password, the room setup, the join form
EntryPanels == {"landing", "hostHub", "hostSetup", "playerJoin"}

\* showPanel by the choice, login, setup and back buttons (app.js 491-527):
\* the panel changes, nothing else does
Navigate(panelId) ==
    /\ ClientStep
    /\ client.panel # panelId
    /\ \/ panelId = "landing"
       \/ panelId = "hostHub" /\ client.panel = "landing"
       \/ panelId = "playerJoin" /\ client.panel = "landing"
       \/ panelId = "hostSetup" /\ client.panel = "hostHub"
    /\ client' = [client EXCEPT !.panel = panelId]
    /\ UNCHANGED rooms

\* createRoomBtn click (app.js 534-556) with `list` typed into the team rows
\* and `code` drawn by generateRoomCode, a code not in use
createRoomBtn(list, code) ==
    /\ ClientStep
    /\ client.panel = "hostSetup"
    /\ rooms[code] = NoRoom
    /\ \A q \in client.requests : q.code # code
    /\ Cardinality(client.requests) < MaxRequests
    /\ LET names == teamNames(list)
       IN  IF tooFewTeams(names)
           THEN client' = Alerted(client, "Inserisci almeno due squadre")
           ELSE client' = [client EXCEPT
                              !.roomCode = code,
                              !.teams = names,
                              !.currentRound = 0,
                              !.currentTeamIndex = NULL,
                              !.timerEnd = 0,
                              !.requests = @ \cup {[op |-> "set", code |-> code, teams |-> names]}]
    /\ UNCHANGED rooms

\* The creation write is applied and acknowledged (app.js 556-566): the
\* history entry, the dashboard and subscribeHost()
createRoomThen(q) ==
    /\ ClientStep
    /\ q \in Creating
    /\ rooms' = [rooms EXCEPT ![q.code] = createdRoom(q.teams)]
    /\ LET c   == [client EXCEPT !.requests = @ \ {q},
                                 !.history = @ \cup {q.code},
                                 !.panel = "hostDashboard",
                                 !.opened = q.code]
           d   == subscribe(c, "host")
           own == \E r \in d.requests : r.op = "set" /\ r.code = d.roomCode
       IN  client' = IF d.roomCode = q.code
                     THEN hostHandler(d, createdRoom(q.teams))
                     ELSE IF own
                     THEN hostHandler(d, createdRoom(
                              (CHOOSE r \in d.requests : r.op = "set" /\ r.code = d.roomCode).teams))
                     ELSE d

\* The creation write is refused (app.js 567-570)
createRoomCatch(q) ==
    /\ ClientStep
    /\ q \in Creating
    /\ client' = Alerted([client EXCEPT !.requests = @ \ {q}],
                         "Errore durante la creazione della stanza")
    /\ UNCHANGED rooms

\* Click on the history item of room `code` (app.js 169-173); the list holds
\* the rooms of the history that exist
historyItemClick(code) ==
    /\ ClientStep
    /\ client.panel = "hostHub"
    /\ code \in client.history
    /\ rooms[code] # NoRoom
    /\ client' = subscribe([client EXCEPT !.roomCode = code,
                                          !.panel = "hostDashboard",
                                          !.opened = code], "host")
    /\ UNCHANGED rooms

\* joinRoomBtn click (app.js 630-637) with `code` typed ("" for nothing)
joinRoomBtn(code) ==
    /\ ClientStep
    /\ client.panel = "playerJoin"
    /\ IF code = ""
       THEN client' = Alerted(client, "Inserisci un codice stanza")
       ELSE /\ Cardinality(client.requests) < MaxRequests
            /\ client' = [client EXCEPT
                             !.requests = @ \cup {[op |-> "once", code |-> code, teams |-> << >>]}]
    /\ UNCHANGED rooms

\* Mutant of joinRoomFound: the room code is taken whether the room exists or not
joinRoomFound_AnyCode(c, code, data) ==
    [c EXCEPT !.roomCode = code,
              !.teams = IF data = NoRoom THEN << >> ELSE data.teams,
              !.panel = "playerTeamSelect"]

\* The continuation of once('value') (app.js 638-660) on snapshot `data`
joinRoomFound(c, code, data) ==
    IF data # NoRoom
    THEN [c EXCEPT !.roomCode = code,
                   !.teams = data.teams,
                   !.panel = "playerTeamSelect"]
    ELSE Alerted(c, "Stanza non trovata")

\* The read of joinRoomBtn is answered
joinRoomThen(q) ==
    /\ ClientStep
    /\ q \in client.requests
    /\ q.op = "once"
    /\ client' = joinRoomFound([client EXCEPT !.requests = @ \ {q}], q.code, localView(q.code))
    /\ UNCHANGED rooms

\* confirmTeamBtn click (app.js 663-684) with radio `team` checked (NULL for
\* none); the voterId kept for the room in localStorage is the participant's
confirmTeamBtn(team) ==
    /\ ClientStep
    /\ client.panel = "playerTeamSelect"
    /\ IF team = NULL
       THEN client' = Alerted(client, "Seleziona un team")
       ELSE /\ team < Len(client.teams)
            /\ client' = subscribe([client EXCEPT !.myTeamIndex = team,
                                                  !.voterId = "v1",
                                                  !.panel = "playerVoting",
                                                  !.opened = client.roomCode], "player")
    /\ UNCHANGED rooms

\* A snapshot of its path reaches listener k of the page
clientSnapshot(k) ==
    /\ ClientStep
    /\ k \in 1 .. Len(client.listeners)
    /\ client' = runHandler(client, client.listeners[k], localView(client.listeners[k].code))
    /\ UNCHANGED rooms

\* The page writes `written` to rooms/<state.roomCode>: the store takes it
\* where the room is there, and the page's listeners on the room run at once
clientWrite(c, written) ==
    /\ rooms[c.roomCode] # NoRoom
    /\ rooms' = [rooms EXCEPT ![c.roomCode] = written]
    /\ client' = runListeners(c, c.roomCode, written, 1)

\* Click on team button `index` of the dashboard (app.js 88-102)
teamButtonClick(index) ==
    /\ ClientStep
    /\ client.panel = "hostDashboard"
    /\ index < Len(client.teams)
    /\ ~ client.teamButtonsDisabled
    /\ ~ (client.currentTeamIndex = index /\ client.timerEnd > now)
    /\ clientWrite(client, SelectTeamTxn(rooms[client.roomCode], client.currentRound, index))

\* Mutant of timerStartGuard: the click is never refused
timerStartGuard_NoGuard(currentTeamIndex) == FALSE

\* state.currentTeamIndex === null || === undefined   (app.js 574)
timerStartGuard(currentTeamIndex) == currentTeamIndex = NULL

\* timerStartBtn click on the dashboard (app.js 573-580)
timerStartBtn ==
    /\ ClientStep
    /\ client.panel = "hostDashboard"
    /\ ~ client.startBtnDisabled
    /\ IF timerStartGuard(client.currentTeamIndex)
       THEN /\ client' = Alerted(client, "Seleziona prima un team da valutare")
            /\ UNCHANGED rooms
       ELSE clientWrite(client, StartTimerUpdate(rooms[client.roomCode], now))

\* submitVoteBtn click (app.js 686-701) with the form holding `ratings`
submitVoteBtn(ratings) ==
    /\ ClientStep
    /\ client.panel = "playerVoting"
    /\ ~ client.submitDisabled
    /\ IF ~ allSelected(ratings)
       THEN /\ client' = Alerted(client, "Compila tutte le valutazioni")
            /\ UNCHANGED rooms
       ELSE clientWrite([client EXCEPT !.submitDisabled = TRUE],
                        VoteWrite(rooms[client.roomCode], client.currentRound,
                                  client.voterId, ratings))

\* The lists typed into the team rows
TeamLists == UNION {[1 .. n -> NameInputs] : n \in 0 .. MaxInputs}

NextClient ==
    \/ DismissAlert
    \/ \E panelId \in EntryPanels : Navigate(panelId)
    \/ \E list \in TeamLists, code \in Codes : createRoomBtn(list, code)
    \/ \E q \in client.requests : createRoomThen(q)
    \/ \E q \in client.requests : createRoomCatch(q)
    \/ \E code \in Codes : historyItemClick(code)
    \/ \E code \in Codes \cup {""} : joinRoomBtn(code)
    \/ \E q \in client.requests : joinRoomThen(q)
    \/ \E team \in Teams \cup {NULL} : confirmTeamBtn(team)
    \/ \E k \in 1 .. Len(client.listeners) : clientSnapshot(k)
    \/ teamButtonClick(0)
    \/ timerStartBtn
    \/ \E ratings \in {AllStars(5), Incomplete} : submitVoteBtn(ratings)

SpecClient == InitClient /\ [][NextClient]_vars


Supplied(list) == {i \in 1 .. Len(list) : list[i] \notin {"", " "}}

\* C26: when a local guard fails (an incomplete rating-map on submit,
\* StartTimer with no team selected, fewer than two teams at creation) no
\* write is issued to the store and the room records are unchanged.
C26_RejectedLocally ==
    [][/\ client.panel = "hostSetup" =>
             \A list \in {l \in TeamLists : Cardinality(Supplied(l)) < 2}, code \in Codes :
                createRoomBtn(list, code)
                   => rooms' = rooms /\ client'.requests = client.requests
       /\ (client.currentTeamIndex = NULL /\ timerStartBtn)
             => rooms' = rooms /\ client'.requests = client.requests
       /\ client.panel = "playerVoting" =>
             \A ratings \in {f \in Forms : \E c \in Criteria : c \notin DOMAIN f} :
                submitVoteBtn(ratings)
                   => rooms' = rooms /\ client'.requests = client.requests]_vars

\* C26 witness: the participant selected team 0 in room A, clicked
\* createRoomBtn for another room and came back to A from the history; the
\* start button, still enabled, was clicked before A's snapshot and refused
C26_Witness ==
    /\ client.alert = "Seleziona prima un team da valutare"
    /\ client.panel = "hostDashboard"
    /\ client.currentTeamIndex = NULL
    /\ client.roomCode = "A"
    /\ rooms["A"] # NoRoom
    /\ rooms["A"].currentTeam = 0
    /\ rooms["A"].timerEnd = 0

\* C28: a join attempt with a room code that has no record ends in NotFound:
\* the client's roomCode, teams and voter identity stay, no subscription is
\* created, no write is issued and the attempt is not retried.
C28_JoinNotFound ==
    [][\A q \in client.requests :
          (joinRoomThen(q) /\ localView(q.code) = NoRoom)
             => /\ client'.alert = "Stanza non trovata"
                /\ client'.roomCode = client.roomCode
                /\ client'.teams = client.teams
                /\ client'.voterId = client.voterId
                /\ client'.myTeamIndex = client.myTeamIndex
                /\ client'.listeners = client.listeners
                /\ client'.subscriptions = client.subscriptions
                /\ client'.requests = client.requests \ {q}
                /\ client'.panel = client.panel
                /\ rooms' = rooms]_vars

\* C28 witness: a participant who listens to room A as Host asked to join B,
\* which does not exist, and was told so
C28_Witness ==
    /\ client.alert = "Stanza non trovata"
    /\ client.roomCode = "A"
    /\ rooms["B"] = NoRoom
    /\ Len(client.listeners) = 1
    /\ client.requests = {}

\* C30: after any sequence of room openings by one participant (creating,
\* opening from the history, joining as Player) the participant holds at most
\* one live subscription, and it is to the room opened last.
C30_Original ==
    /\ Len(client.listeners) <= 1
    /\ \A k \in 1 .. Len(client.listeners) : client.listeners[k].code = client.opened


\* ------------------------------------------------------------- frame of the round
\* C31: currentRound is changed only by AdvanceRound and RetreatRound:
\* SelectTeam, StartTimer, StopTimer, the expiry write and vote submission
\* leave the room's currentRound as it is.
C31_RoundChangesOnlyByRoundButtons ==
    [][room'.currentRound # room.currentRound
          => /\ \E h \in Hosts : AdvanceRound(h) \/ RetreatRound(h)
             /\ \A h \in Hosts :
                   ~ (\/ \E index \in Teams : SelectTeam(h, index)
                      \/ StartTimer(h)
                      \/ StopTimer(h)
                      \/ HostTick(h))
             /\ \A p \in Players, ratings \in Forms : ~ SubmitVote(p, ratings)]_vars

\* C31 witness: in round 1 a team was selected, its timer was started and a
\* vote was stored, and the room is still in round 1
C31_Witness ==
    /\ room.currentRound = 1
    /\ room.roundTeams[1] = 0
    /\ room.timerEnd # 0
    /\ room.votes[1]["v1"] # NoVote


\* ------------------------------------------------------------- frame of the votes
\* A step taken by a Host button or by the Host's countdown
HostStep(h) ==
    \/ \E index \in Teams : SelectTeam(h, index)
    \/ StartTimer(h)
    \/ StopTimer(h)
    \/ HostTick(h)
    \/ AdvanceRound(h)
    \/ RetreatRound(h)

\* C32: no SelectTeam, StartTimer, StopTimer, expiry write, AdvanceRound or
\* RetreatRound removes or alters a stored vote, and a vote votes[r][v] that is
\* present stays present in every later state.
C32_VotesAppendOnly ==
    [][/\ room'.votes # room.votes => \A h \in Hosts : ~ HostStep(h)
       /\ \A r \in Rounds, v \in Players :
             room.votes[r][v] # NoVote => room'.votes[r][v] # NoVote]_vars

\* C32 witness: v1's votes of both rounds are stored, v1's last snapshot showed
\* round 0 and the room is in round 1, so the Host changed round at least once
\* with a vote stored
C32_Witness ==
    /\ room.votes[0]["v1"] # NoVote
    /\ room.votes[1]["v1"] # NoVote
    /\ player["v1"].currentRound = 0
    /\ room.currentRound = 1


\* ------------------------------------------------------------- open voting window
\* C33 as stated: while the stored timer is running no SelectTeam is applied;
\* currentTeam and roundTeams[currentRound] change during an open voting window
\* only by a round transition that clears the team under evaluation.
C33_Original ==
    [][TimerRunning(room.timerEnd, now)
          => \/ /\ room'.currentTeam = room.currentTeam
                /\ room'.roundTeams[room.currentRound] = room.roundTeams[room.currentRound]
                /\ \A h \in Hosts, index \in Teams : ~ SelectTeam(h, index)
             \/ /\ \E h \in Hosts : AdvanceRound(h) \/ RetreatRound(h)
                /\ room'.currentTeam = NULL]_vars


\* ------------------------------------------------------------- rendering twice
\* The sessions whose leaderboard container is followed
RenderSessions == {"h1", "v1"}

\* Mutant of clearContainer: the rows of the earlier render are kept
clearContainer_KeepsRows(rows) == rows

\* container.innerHTML = ''   (app.js 279)
clearContainer(rows) == << >>

\* The array mapped over room.teams (app.js 280-299): one entry per team in
\* team-index order, with the average aggregated from roundTeams and votes
leaderboardEntries(rm) ==
    [i \in 1 .. MinTeams |-> [name |-> i - 1, avg |-> renderLeaderboard(rm)[i - 1].avg]]

\* renderLeaderboard(room) on a container holding `rows` (app.js 277-327)
renderInto(rows, rm) ==
    clearContainer(rows) \o leaderRows(sortLeaderboard(leaderboardEntries(rm)))

\* The rooms drawn: any recorded team per round, v1's vote absent or all fives,
\* v2's vote absent or the example vote
RenderRooms ==
    {[NewRoom EXCEPT !.roundTeams = rt, !.votes = vs] :
        rt \in [Rounds -> Teams \cup {NULL}],
        vs \in {f \in [Rounds -> [Players -> {NoVote, ExampleVote, AllStars(5)}]] :
                   \A r \in Rounds : /\ f[r]["v1"] # ExampleVote
                                     /\ f[r]["v2"] # AllStars(5)}}

\* Host h1 and Player v1 (who confirmed some team) have subscribed to a room
\* and the first snapshot has not been processed yet
InitRender ==
    /\ room \in RenderRooms
    /\ now = 1
    /\ host = [h \in Hosts |-> HostBeforeSnapshot(NotFollowed)]
    /\ \E team \in Teams :
          player = [p \in Players |->
                      [ myTeamIndex      |-> IF p = "v1" THEN team ELSE NULL,
                        currentRound     |-> 0,
                        currentTeamIndex |-> NULL,
                        timerEnd         |-> 0,
                        submitDisabled   |-> TRUE,
                        acks             |-> 0 ]]
    /\ stale = RenderSessions
    /\ lastSel = NoSel
    /\ rooms = << >>
    /\ client = << >>
    \* a container holds nothing, or the rows rendered for the room the session
    \* had open before
    /\ leaderboard \in [RenderSessions -> [rows : {<< >>, renderInto(<< >>, NewRoom)},
                                           rendered : {FALSE}]]

\* The container of session s after renderLeaderboard(data)
Rendered(s, data) ==
    [leaderboard EXCEPT ![s] = [rows |-> renderInto(leaderboard[s].rows, data),
                                rendered |-> TRUE]]

\* subscribeHost's value handler with its call of renderLeaderboard
\* (app.js 381-421)
RenderHostSnapshot(h) ==
    /\ h \in stale
    /\ host' = [host EXCEPT ![h] = subscribeHostHandler(host[h], room, now)]
    /\ leaderboard' = Rendered(h, room)
    /\ stale' = stale \ {h}
    /\ UNCHANGED <<room, now, player, lastSel, rooms, client>>

\* subscribePlayer's value handler with its call of renderLeaderboard
\* (app.js 445-480)
RenderPlayerSnapshot(p) ==
    /\ p \in stale
    /\ player' = [player EXCEPT ![p] = PlayerView(p, player[p].myTeamIndex, room, now)]
    /\ leaderboard' = Rendered(p, room)
    /\ stale' = stale \ {p}
    /\ UNCHANGED <<room, now, host, lastSel, rooms, client>>

\* nextRoundBtn click (app.js 596-604); the Host's handler runs on its own write
RenderAdvanceRound(h) ==
    /\ room.currentRound < MaxRound
    /\ room' = AdvanceTxn(room)
    /\ host' = [host EXCEPT ![h] = subscribeHostHandler(host[h], room', now)]
    /\ leaderboard' = Rendered(h, room')
    /\ stale' = RenderSessions \ {h}
    /\ UNCHANGED <<now, player, lastSel, rooms, client>>

\* prevRoundBtn click (app.js 585-594); the Host's handler runs on its own write
RenderRetreatRound(h) ==
    /\ room.currentRound > 0
    /\ room' = RetreatTxn(room)
    /\ host' = [host EXCEPT ![h] = subscribeHostHandler(host[h], room', now)]
    /\ leaderboard' = Rendered(h, room')
    /\ stale' = RenderSessions \ {h}
    /\ UNCHANGED <<now, player, lastSel, rooms, client>>

NextRender ==
    \/ RenderHostSnapshot("h1")
    \/ RenderPlayerSnapshot("v1")
    \/ RenderAdvanceRound("h1")
    \/ RenderRetreatRound("h1")

SpecRender == InitRender /\ [][NextRender]_vars

\* C34: rebuilding the leaderboard from the same (teams, roundTeams, votes)
\* yields identical output: a session that renders again shows the rows it
\* showed, and two sessions that have rendered show the same rows, whatever
\* their local state, the room's other fields and their earlier renders.
C34_SameSnapshotSameLeaderboard ==
    [][/\ \A s \in RenderSessions :
             leaderboard[s].rendered => leaderboard'[s].rows = leaderboard[s].rows
       /\ \A s1, s2 \in RenderSessions :
             leaderboard'[s1].rendered /\ leaderboard'[s2].rendered
                 => leaderboard'[s1].rows = leaderboard'[s2].rows]_vars

\* C34 witness: both sessions have rendered a leaderboard with a counted vote,
\* the Host from a snapshot of round 1 and the Player from one of round 0
C34_Witness ==
    /\ leaderboard["h1"].rendered
    /\ leaderboard["v1"].rendered
    /\ host["h1"].currentRound = 1
    /\ player["v1"].currentRound = 0
    /\ leaderboard["h1"].rows[1].avg # <<0, 1>>


\* ------------------------------------------------------------- room codes
\* Math.random() is drawn as r / RandomDen with r in 0 .. RandomDen - 1
RandomDen == 32

\* The number of iterations of generateRoomCode's loop (app.js 36)
CodeLength == 6

\* const chars = '...'   (app.js 34), one string per character
chars ==
    <<"A", "B", "C", "D", "E", "F", "G", "H", "J", "K", "M", "N",
      "P", "Q", "R", "S", "T", "U", "V", "W", "X", "Y", "Z", "2",
      "3", "4", "5", "6", "7", "8", "9">>

\* chars.charAt(k): the empty string outside the string
charAt(str, k) == IF k >= 0 /\ k < Len(str) THEN str[k + 1] ELSE ""

\* code += c: appending the empty string leaves the code as it is
Concat(code, c) == IF c = "" THEN code ELSE Append(code, c)

\* Mutant of charIndex: Math.ceil in place of Math.floor
charIndex_Ceil(r) == (r * Len(chars) + RandomDen - 1) \div RandomDen

\* Math.floor(Math.random() * chars.length)   (app.js 37)
charIndex(r) == (r * Len(chars)) \div RandomDen

\* generateRoomCode is entered (app.js 33-35); the values Math.random() returns
\* during the call are one or two of the values it can return
InitCode ==
    /\ room = NewRoom
    /\ now = 1
    /\ host = [h \in Hosts |-> HostBeforeSnapshot(NotFollowed)]
    /\ player = [p \in Players |->
                   [ myTeamIndex      |-> NULL,
                     currentRound     |-> 0,
                     currentTeamIndex |-> NULL,
                     timerEnd         |-> 0,
                     submitDisabled   |-> TRUE,
                     acks             |-> 0 ]]
    /\ stale = {}
    /\ lastSel = NoSel
    /\ rooms = << >>
    /\ leaderboard = << >>
    /\ \E r1, r2 \in 0 .. (RandomDen - 1) :
          client = [code |-> << >>, i |-> 0, randoms |-> {r1, r2}, returned |-> FALSE]

\* One iteration of the loop (app.js 36-38)
generateRoomCodeLoop ==
    /\ client.i < CodeLength
    /\ \E r \in client.randoms :
          client' = [client EXCEPT !.code = Concat(@, charAt(chars, charIndex(r))),
                                   !.i = @ + 1]
    /\ UNCHANGED <<room, now, host, player, stale, lastSel, rooms, leaderboard>>

\* return code   (app.js 39)
generateRoomCodeReturn ==
    /\ ~ (client.i < CodeLength)
    /\ ~ client.returned
    /\ client' = [client EXCEPT !.returned = TRUE]
    /\ UNCHANGED <<room, now, host, player, stale, lastSel, rooms, leaderboard>>

NextCode == generateRoomCodeLoop \/ generateRoomCodeReturn

SpecCode == InitCode /\ [][NextCode]_vars

\* The set of symbols of the alphabet
Alphabet == {chars[k] : k \in 1 .. Len(chars)}

\* C35 as amended: every generated room code has exactly 6 characters, each
\* drawn from a 31-symbol alphabet that contains none of 0, O, 1, I, L.
C35_RoomCodeFormat ==
    client.returned =>
        /\ Len(client.code) = 6
        /\ \A k \in 1 .. Len(client.code) : client.code[k] \in Alphabet
        /\ Cardinality(Alphabet) = 31
        /\ Alphabet \cap {"0", "O", "1", "I", "L"} = {}

\* C35 as stated: every generated room code has exactly 6 characters, each
\* drawn from a 32-symbol alphabet that contains none of 0, O, 1, I, L.
C35_Original ==
    client.returned =>
        /\ Len(client.code) = 6
        /\ \A k \in 1 .. Len(client.code) : client.code[k] \in Alphabet
        /\ Cardinality(Alphabet) = 32
        /\ Alphabet \cap {"0", "O", "1", "I", "L"} = {}

\* C35 witness: a returned code that starts with the first symbol of the
\* alphabet and ends with the last
C35_Witness ==
    /\ client.returned
    /\ client.code[1] = "A"
    /\ client.code[Len(client.code)] = "9"


\* ------------------------------------------------------------- expiry write
\* C36 as stated: the Host's expiry-driven write of timerEnd = 0 never cancels
\* an open voting window: whenever that write is applied the stored timerEnd is
\* already 0 or in the past.
C36_Original ==
    [][\A h \in Hosts : HostTick(h) => ~ TimerRunning(room.timerEnd, now)]_vars


\* ------------------------------------------------------------- attribution
\* C37 as stated: every stored vote is attributed to the team the voter was
\* evaluating: when votes[r][v] is written roundTeams[r] is the currentTeam of
\* the snapshot that enabled v's submission, and roundTeams[r] stays that team
\* at all later times.
C37_Original ==
    [][/\ \A p \in Players, ratings \in Forms :
             SubmitVote(p, ratings) /\ allSelected(ratings)
                 => room'.roundTeams[player[p].currentRound] = player[p].currentTeamIndex
       /\ \A r \in Rounds :
             Voters(room, r) # {} => room'.roundTeams[r] = room.roundTeams[r]]_vars


\* ------------------------------------------------------------- every vote counted
\* The sum of counts[i] over the teams of S (app.js 283, 293)
RECURSIVE SumCounts(_, _)
SumCounts(counted, S) ==
    IF S = {} THEN 0
    ELSE LET i == CHOOSE j \in S : TRUE
         IN  counted[i].count + SumCounts(counted, S \ {i})

\* C38 as stated: every round that holds a stored vote has its roundTeams
\* entry set, so the leaderboard's per-team vote counts add up to the number
\* of stored votes.
C38_Original ==
    /\ \A r \in Rounds : Voters(room, r) # {} => room.roundTeams[r] # NULL
    /\ SumCounts(renderLeaderboard(room), Teams)
          = Cardinality({x \in Rounds \X Players : room.votes[x[1]][x[2]] # NoVote})


\* ------------------------------------------------------------- concurrent rounds
\* The longest sequence of committed round transactions followed
MaxCommits == 3

\* Mutant of nextRoundCommit: the new round is computed from the clicking
\* session's state.currentRound
nextRoundCommit_FromLocalRound(h) ==
    /\ Len(client.log) < MaxCommits
    /\ room' = [AdvanceTxn(room) EXCEPT !.currentRound = host[h].currentRound + 1]
    /\ host' = [host EXCEPT ![h] = subscribeHostHandler(host[h], room', now)]
    /\ stale' = Notify(room, room', {h}) \ {h}
    /\ client' = [client EXCEPT !.log = Append(@, [op |-> "next", by |-> h, seen |-> host[h].currentRound])]
    /\ UNCHANGED <<now, player, lastSel, rooms, leaderboard>>

\* nextRoundBtn click (app.js 596-604) and the commit of its transaction, run
\* on the stored room; the clicking session's handler runs on its own write.
\* The log keeps the button, the session and the round its state showed.
nextRoundCommit(h) ==
    /\ Len(client.log) < MaxCommits
    /\ room' = AdvanceTxn(room)
    /\ host' = [host EXCEPT ![h] = subscribeHostHandler(host[h], room', now)]
    /\ stale' = Notify(room, room', {h}) \ {h}
    /\ client' = [client EXCEPT !.log = Append(@, [op |-> "next", by |-> h, seen |-> host[h].currentRound])]
    /\ UNCHANGED <<now, player, lastSel, rooms, leaderboard>>

\* prevRoundBtn click (app.js 585-594) and the commit of its transaction
prevRoundCommit(h) ==
    /\ Len(client.log) < MaxCommits
    /\ room' = RetreatTxn(room)
    /\ host' = [host EXCEPT ![h] = subscribeHostHandler(host[h], room', now)]
    /\ stale' = Notify(room, room', {h}) \ {h}
    /\ client' = [client EXCEPT !.log = Append(@, [op |-> "prev", by |-> h, seen |-> host[h].currentRound])]
    /\ UNCHANGED <<now, player, lastSel, rooms, leaderboard>>

\* Two Host sessions have processed the snapshot of a room in round 0 or 1;
\* no round transaction is committed yet
InitRounds ==
    /\ \E n \in Rounds :
          /\ room = [NewRoom EXCEPT !.currentRound = n]
          /\ host = [h \in Hosts |->
                        subscribeHostHandler(HostBeforeSnapshot(NotFollowed),
                                             [NewRoom EXCEPT !.currentRound = n], 1)]
          /\ client = [start |-> n, log |-> << >>]
    /\ now = 1
    /\ player = [p \in Players |->
                   [ myTeamIndex      |-> NULL,
                     currentRound     |-> 0,
                     currentTeamIndex |-> NULL,
                     timerEnd         |-> 0,
                     submitDisabled   |-> TRUE,
                     acks             |-> 0 ]]
    /\ stale = {}
    /\ lastSel = NoSel
    /\ rooms = << >>
    /\ leaderboard = << >>

NextRounds ==
    \/ \E h \in Hosts : HostSnapshot(h)
    \/ \E h \in Hosts : nextRoundCommit(h)
    \/ \E h \in Hosts : prevRoundCommit(h)

SpecRounds == InitRounds /\ [][NextRounds]_vars

\* The round reached from round n by the transitions of `log`, one after the
\* other
RECURSIVE SequentialRound(_, _)
SequentialRound(n, log) ==
    IF log = << >> THEN n
    ELSE LET before == SequentialRound(n, SubSeq(log, 1, Len(log) - 1))
         IN  IF log[Len(log)].op = "next" THEN before + 1
             ELSE IF before > 0 THEN before - 1 ELSE 0

\* C39: concurrent round transitions are never lost: the stored currentRound is
\* the round reached by applying the committed AdvanceRound and RetreatRound
\* transactions one after the other in commit order, and two Hosts that both
\* clicked AdvanceRound while seeing round n leave round n + 2.
C39_RoundTransitionsNotLost ==
    /\ room.currentRound = SequentialRound(client.start, client.log)
    /\ \A n \in Rounds :
          (/\ client.start = n
           /\ Len(client.log) = 2
           /\ \A k \in 1 .. 2 : client.log[k].op = "next" /\ client.log[k].seen = n)
              => room.currentRound = n + 2

\* C39 witness: h1 and h2 both clicked nextRoundBtn while their state showed
\* round 0, both transactions are committed and the room is in round 2
C39_Witness ==
    /\ client.start = 0
    /\ Len(client.log) = 2
    /\ client.log[1] = [op |-> "next", by |-> "h1", seen |-> 0]
    /\ client.log[2] = [op |-> "next", by |-> "h2", seen |-> 0]
    /\ room.currentRound = 2


\* ------------------------------------------------------------- Player writes
\* A step of Player p: joining and confirming a team, processing a snapshot,
\* the countdown tick, submitting a vote, the write's completion
PlayerStep(p) ==
    \/ \E team \in Teams : JoinRoom(p, team)
    \/ PlayerSnapshot(p)
    \/ PlayerTick(p)
    \/ \E ratings \in Forms : SubmitVote(p, ratings)
    \/ VoteAck(p)

\* C40: no Player-side operation writes currentRound, currentTeam, timerEnd or
\* roundTeams (the roster is fixed); the only store write a Player issues is to
\* votes[round][its own voterId], for the round its state shows.
C40_PlayerWritesOwnVoteOnly ==
    [][room' # room =>
          \A p \in Players :
              PlayerStep(p) =>
                  /\ room'.currentRound = room.currentRound
                  /\ room'.currentTeam = room.currentTeam
                  /\ room'.timerEnd = room.timerEnd
                  /\ room'.roundTeams = room.roundTeams
                  /\ \A r \in Rounds, v \in Players :
                        room'.votes[r][v] # room.votes[r][v]
                            => v = p /\ r = player[p].currentRound]_vars

\* C40 witness: v1's vote is stored and v1's countdown has expired locally
\* while the stored timerEnd is not cleared
C40_Witness ==
    /\ room.votes[0]["v1"] # NoVote
    /\ player["v1"].myTeamIndex # NULL
    /\ player["v1"].timerEnd = 0
    /\ room.timerEnd # 0
    /\ now >= room.timerEnd

=============================================================================
